---------------------------- MODULE Spec2Model ----------------------------
(***************************************************************************)
(* Hybrid OCR dispatch of the label scanner (src/sw.js, object OCR):       *)
(* OCR.process samples navigator.onLine, then runs processOnline (enhance, *)
(* POST to /api/ocr under a 30 s abort timer) with a catch-all fallback to *)
(* processOffline (load Tesseract.js by script tag, enhance, recognize).   *)
(* A dispatch steps at each call of the caller's progress callback and at  *)
(* each await of the source (pc names the next one); the steps of several  *)
(* dispatches and of the browser (connectivity events, script load, fetch  *)
(* settlement, timer) interleave. Variables that count calls or record     *)
(* what a dispatch read are history kept for the properties.               *)
(*                                                                         *)
(* Service worker of the label scanner (src/sw.js, lines 1-126): the       *)
(* install, activate, fetch and message handlers over the browser's cache  *)
(* storage. A handler steps at each promise it waits for; the browser      *)
(* dispatches the events. The script's worker runs beside the worker of    *)
(* the previous version of the script, which controls the open pages until *)
(* the new one activates. Spec is the dispatch with the worker at rest,    *)
(* SpecCache the worker with the dispatch at rest.                         *)
(*                                                                         *)
(* Batch upload of the label scanner (src/js/app.js, handleBatchFiles and  *)
(* cancelBatchProcessing): SpecBatch. The size computation of enhanceImage *)
(* on its own: SpecEnhance.                                                *)
(***************************************************************************)
EXTENDS Naturals, Integers, Sequences, FiniteSets, TLC

\* ---------------------------------------------------------------- bounds
\* Number of OCR.process calls that may be in flight together (handleFile and
\* handleBatchFiles of src/js/app.js both call it, with no re-entrancy guard).
NumDispatch == 2
\* Connectivity events queued by the browser and not yet delivered.
MaxPendingEvents == 1

Dispatches == 1..NumDispatch

\* Fetch events the model follows through the fetch handler.
MaxFetches == 2
\* Install events the browser dispatches for the script (a failed install is
\* tried again on a later registration).
MaxInstalls == 2
\* Message events the model follows through the message handler of one worker.
MaxMessages == 1

FetchIds == 1..MaxFetches

\* handleBatchFiles calls that may be running together (the file input is
\* not disabled while a batch runs), and the files of one batch.
NumBatches == 2
MaxFiles == 2

Batches == 1..NumBatches

\* ------------------------------------------------------- program constants
\* setTimeout(() => controller.abort(), 30000)
TIMEOUT_MS == 30000

\* HTTP statuses the proxy may answer with; response.ok is 200..299.
Statuses == {200, 404, 500}
\* `HTTP ${response.status}`
StatusText(s) ==
    CASE s = 200 -> "200"
      [] s = 404 -> "404"
      [] s = 500 -> "500"
      [] OTHER   -> "?"
ResponseOk(s) == s >= 200 /\ s <= 299

\* JSON bodies of a 2xx answer: IsErroredOnProcessing, ErrorMessage (""
\* stands for a missing or empty message; the service chooses the text) and
\* ParsedResults (a sequence of ParsedText strings; << >> stands for a
\* missing or empty list).
ErrorMessages == {"", "E101", "Request timed out", "HTTP 500"}
RemoteTexts == {"", "R"}
Bodies ==
    [IsErroredOnProcessing : BOOLEAN, ErrorMessage : ErrorMessages,
     ParsedResults : {<< >>} \cup {<<t>> : t \in RemoteTexts}]
\* data.ParsedResults?.[0]?.ParsedText || ''
ParsedTextOf(data) ==
    IF Len(data.ParsedResults) >= 1 THEN data.ParsedResults[1] ELSE ""
\* data.ErrorMessage || 'OCR failed'
ApiErrorText(data) ==
    IF data.ErrorMessage = "" THEN "OCR failed" ELSE data.ErrorMessage

\* result.data.text of Tesseract.recognize (empty when nothing is read)
LocalTexts == {"", "L"}

\* ------------------------------------------------ service worker constants
\* const CACHE_NAME = 'label-scanner-v6'
CACHE_NAME == "label-scanner-v6"
\* CACHE_NAME of the previous version of the script, whose worker controls
\* the pages until this one activates, and of a version before that.
PREVIOUS_NAME == "label-scanner-v5"
STALE_NAME == "label-scanner-v4"
CacheNames == {STALE_NAME, PREVIOUS_NAME, CACHE_NAME}

\* const CACHE_URLS = [...] (two of the eight application shell files)
CACHE_URLS == {"./", "./js/app.js"}
\* const TESSERACT_URLS = [...]
TESSERACT_URLS ==
    {"https://cdn.jsdelivr.net/npm/tesseract.js@5/dist/tesseract.min.js",
     "https://cdn.jsdelivr.net/npm/tesseract.js@5/dist/worker.min.js"}
\* A same-origin resource that is in neither list.
OTHER_URL == "./icons/icon-192.png"
Urls == CACHE_URLS \cup TESSERACT_URLS \cup {OTHER_URL}
\* url.origin === location.origin
SameOrigin(u) == u \notin TESSERACT_URLS
Methods == {"GET", "POST"}
\* event.data of a message event
MessageData == {"skipWaiting", "ping"}

\* The two workers and the CACHE_NAME each one's script holds.
Workers == {"previous", "current"}
CacheNameOf(w) == IF w = "current" THEN CACHE_NAME ELSE PREVIOUS_NAME

VARIABLES
    navOnline,     \* navigator.onLine, the browser's connectivity flag
    isOnline,      \* OCR.isOnline
    events,        \* online/offline events dispatched and not yet handled
    tesseract,     \* typeof Tesseract !== 'undefined'
    pc,            \* position of each dispatch in process/processOnline/...
    sample,        \* what process read from navigator.onLine: none/online/offline
    decodable,     \* whether the dispatch's file decodes as an image
    timer,         \* the abort timer of processOnline: none/armed/cleared/fired
    caught,        \* the err of the catch block of process (NoError: none)
    outcome,       \* how the promise of process settled
    settled,       \* how many times the promise of process was settled
    remoteCalls,   \* fetch(API_URL) calls made by the dispatch
    localStarts,   \* processOffline calls made by the dispatch
    loaderCalls,   \* loadTesseract calls made by the dispatch
    enhCount,      \* enhanceImage calls made by each attempt of the dispatch
    enhAtSample,   \* enhanceImage calls made when navigator.onLine was read
    cbThrew,       \* whether an onProgress call of the dispatch has thrown
    pendingLoads,  \* script elements appended whose load has not settled
    route,         \* the attempts the dispatch has entered, in order
    remote,        \* the dispatch's remote request: none/pending/ok/failed
    body,          \* the ParsedResults of the body the dispatch has read
    objectUrls,    \* the object URLs the dispatch created and has not revoked
    cacheNames,    \* caches.keys(): the caches that exist in cache storage
    entries,       \* the request URLs stored in each cache
    swPc,          \* position of the script's worker in install/activate
    skipWaitingFlag, \* the worker's skip-waiting flag (self.skipWaiting())
    pendingAdds,   \* cache.add(url) promises of the install not yet settled
    keysToDelete,  \* caches.delete(key) promises of activate not yet settled
    controller,    \* the worker that controls the open pages: none/previous/current
    fetches,       \* the fetch events followed, each with its position
    installs,      \* install events dispatched for the script so far
    activations,   \* activate events dispatched for the script so far
    requiredFailed, \* CACHE_URLS whose fetch failed in the current install
    addedOk,       \* TESSERACT_URLS whose fetch succeeded in the current install
    atInstall,     \* cache storage and controller when the install began
    inbox          \* event.data of the message events the worker has handled

vars ==
    << navOnline, isOnline, events, tesseract, pc, sample, decodable, timer,
       caught, outcome, settled, remoteCalls, localStarts, loaderCalls,
       enhCount, enhAtSample, cbThrew, pendingLoads, route, remote, body,
       objectUrls >>

netVars == << navOnline, isOnline, events >>

swVars ==
    << cacheNames, entries, swPc, skipWaitingFlag, pendingAdds, keysToDelete,
       controller, fetches, installs, activations, requiredFailed, addedOk,
       atInstall, inbox >>

NoOutcome == [tag |-> "none", val |-> "", by |-> "none"]
NoError == [msg |-> "", by |-> "none"]
NoBody == [read |-> FALSE, ParsedResults |-> << >>]

\* An error value: its message and (for the analysis) where it was raised.
Err(m, b) == [msg |-> m, by |-> b]

OnlinePcs == {"on_cbEnhancing", "on_enhance", "on_cbSending", "on_fetch",
              "on_json", "on_cbDone"}
OfflinePcs == {"off_cbLoading", "off_loading", "off_cbProcessing",
               "off_enhance", "off_recognize", "off_cbDone"}

\* A fetch event not yet dispatched.
NoFetch ==
    [worker |-> "none", url |-> "", method |-> "", pc |-> "idle",
     answer |-> [from |-> "none", status |-> 0]]
Answer(f, s) == [from |-> f, status |-> s]

\* Cache storage as the install of the script finds it: what the previous
\* versions left. With a previous worker in control or without one, any of
\* the older caches may exist.
CacheStart ==
    /\ controller \in {"none", "previous"}
    /\ cacheNames \in SUBSET {STALE_NAME, PREVIOUS_NAME}
    /\ controller = "previous" => PREVIOUS_NAME \in cacheNames
    /\ entries = [n \in CacheNames |->
                    IF n \notin cacheNames THEN {}
                    ELSE IF n = PREVIOUS_NAME
                    THEN CACHE_URLS \cup {OTHER_URL}
                    ELSE CACHE_URLS]
    /\ swPc = "install"
    /\ skipWaitingFlag = FALSE
    /\ pendingAdds = {}
    /\ keysToDelete = {}
    /\ fetches = [f \in FetchIds |-> NoFetch]
    /\ installs = 1
    /\ activations = 0
    /\ requiredFailed = {}
    /\ addedOk = {}
    /\ atInstall = [names |-> cacheNames, entries |-> entries,
                    controller |-> controller]
    /\ inbox = << >>

\* The worker at rest: no page is controlled and cache storage is empty.
CacheIdle ==
    /\ CacheStart
    /\ controller = "none"
    /\ cacheNames = {}

\* ---------------------------------------------------------- batch upload
VARIABLES
    batchCancelled, \* App.batchCancelled
    bpc,           \* position of each handleBatchFiles call
    files,         \* files.length of each call
    processed,     \* let processed of each call
    saved,         \* let saved of each call
    items,         \* what became of each file of each call
    summary,       \* summary toasts shown by each call
    sawCancel,     \* whether the call has left its loop by the break
    cancelAsked    \* whether cancelBatchProcessing ran while the call ran

batchVars ==
    << batchCancelled, bpc, files, processed, saved, items, summary,
       sawCancel, cancelAsked >>

NoSummary == [cancelled |-> 0, complete |-> 0]

\* App after construction: batchCancelled: false, no batch running.
BatchIdle ==
    /\ batchCancelled = FALSE
    /\ bpc = [b \in Batches |-> "idle"]
    /\ files = [b \in Batches |-> 0]
    /\ processed = [b \in Batches |-> 0]
    /\ saved = [b \in Batches |-> 0]
    /\ items = [b \in Batches |-> [i \in 1..MaxFiles |-> "none"]]
    /\ summary = [b \in Batches |-> NoSummary]
    /\ sawCancel = [b \in Batches |-> FALSE]
    /\ cancelAsked = [b \in Batches |-> FALSE]

\* -------------------------------------------------------- image enhancement
\* const maxWidth = 1400
maxWidth == 1400

\* Sizes of the images given to enhanceImage.
ImageWidths == {1, 700, 1399, 1400, 1401, 1500, 2800, 3000, 4032, 4200}
ImageHeights == {1, 2, 933, 1400, 2000, 3024}

\* Pixels the decoded image puts on the canvas, as << r, g, b >>: black,
\* white, greys on both sides of the brightness threshold and two colours.
SamplePixels ==
    { << 0, 0, 0 >>, << 255, 255, 255 >>, << 127, 127, 127 >>,
      << 128, 128, 128 >>, << 100, 0, 128 >>, << 255, 128, 100 >> }

\* Number of pixels of the canvas the model follows.
NumPixels == 2

Channels == 1..3

VARIABLES
    img,           \* img.width and img.height, once the image is decoded
    canvas,        \* canvas.width and canvas.height (NoCanvas: not created)
    pixels,        \* imageData.data as drawImage left it (<< >>: no image)
    imageData      \* imageData.data as putImageData wrote it back

imageVars == << img, canvas, pixels, imageData >>

NoCanvas == [width |-> 0, height |-> 0, created |-> FALSE]

\* No image is being enhanced.
ImageIdle ==
    /\ img = [width |-> 0, height |-> 0, loaded |-> FALSE]
    /\ canvas = NoCanvas
    /\ pixels = << >>
    /\ imageData = << >>

\* ------------------------------------------------------------ single scan
\* Number of files the user scans, and of clicks on the save button.
MaxScans == 2
MaxClicks == 1

\* Values of the rack and shelf inputs: empty, or a location.
RackValues == {"", "R1"}
ShelfValues == {"", "S1"}

\* The messages of the toasts of handleFile and save.
ToastNothing == "Nothing to save"
ToastMandatory == "Rack and Shelf are mandatory"
ToastSaved == "Saved!"
ToastReady == "Saved! Ready for next"
ToastError == "error"

VARIABLES
    spc,           \* position of handleFile / save: idle/ocr/storing/reloading
    caller,        \* who called the save in progress: handleFile/button/none
    continuous,    \* the continuous checkbox
    rackNo,        \* value of the rack input
    shelfNo,       \* value of the shelf input
    currentScan,   \* App.currentScan (NoScan: null)
    records,       \* the scans Storage.save has written, in order
    toasts,        \* the toasts shown since the last file or click
    wrote,         \* whether the save called by the last handleFile wrote its scan
    scans,         \* handleFile calls so far
    clicks         \* clicks on the save button so far

scanVars ==
    << spc, caller, continuous, rackNo, shelfNo, currentScan, records,
       toasts, wrote, scans, clicks >>

NoScan == [present |-> FALSE, rackNo |-> "", shelfNo |-> ""]

\* The page after App.init: nothing scanned, the inputs empty.
ScanIdle ==
    /\ spc = "idle"
    /\ caller = "none"
    /\ continuous = FALSE
    /\ rackNo = ""
    /\ shelfNo = ""
    /\ currentScan = NoScan
    /\ records = << >>
    /\ toasts = << >>
    /\ wrote = FALSE
    /\ scans = 0
    /\ clicks = 0

\* What each part of the program leaves alone.
outsideDispatch == << swVars, batchVars, imageVars, scanVars >>
outsideWorker == << vars, batchVars, imageVars, scanVars >>
outsideBatch == << vars, swVars, imageVars, scanVars >>
outsideEnhance == << vars, swVars, batchVars, scanVars >>
outsideScan == << vars, swVars, batchVars, imageVars >>

\* The OCR object after construction, before any process call.
DispatchIdle ==
    /\ isOnline = navOnline
    /\ events = << >>
    /\ tesseract = FALSE
    /\ pc = [d \in Dispatches |-> "idle"]
    /\ sample = [d \in Dispatches |-> "none"]
    /\ decodable = [d \in Dispatches |-> TRUE]
    /\ timer = [d \in Dispatches |-> "none"]
    /\ caught = [d \in Dispatches |-> NoError]
    /\ outcome = [d \in Dispatches |-> NoOutcome]
    /\ settled = [d \in Dispatches |-> 0]
    /\ remoteCalls = [d \in Dispatches |-> 0]
    /\ localStarts = [d \in Dispatches |-> 0]
    /\ loaderCalls = [d \in Dispatches |-> 0]
    /\ enhCount = [d \in Dispatches |-> [remote |-> 0, local |-> 0]]
    /\ enhAtSample = [d \in Dispatches |-> 0]
    /\ cbThrew = [d \in Dispatches |-> FALSE]
    /\ pendingLoads = 0
    /\ route = [d \in Dispatches |-> << >>]
    /\ remote = [d \in Dispatches |-> "none"]
    /\ body = [d \in Dispatches |-> NoBody]
    /\ objectUrls = [d \in Dispatches |-> {}]

Init ==
    /\ CacheIdle
    /\ BatchIdle
    /\ ImageIdle
    /\ ScanIdle
    /\ navOnline \in BOOLEAN
    /\ DispatchIdle


\* ------------------------------------------------------------ environment
\* The browser's connectivity changes: navigator.onLine flips and an online
\* or offline event is queued for the window.
ConnectivityChange ==
    /\ Len(events) < MaxPendingEvents
    /\ navOnline' = ~navOnline
    /\ events' = Append(events, ~navOnline)
    /\ UNCHANGED << isOnline, tesseract, pc, sample, decodable, timer, caught,
                    outcome, settled, remoteCalls, localStarts, loaderCalls,
                    enhCount, enhAtSample, cbThrew, pendingLoads, route, remote, body >>
    /\ UNCHANGED objectUrls

\* OCR.init: the 'online' listener sets isOnline = true, the 'offline'
\* listener sets it to false.
init_listener ==
    /\ events # << >>
    /\ isOnline' = Head(events)
    /\ events' = Tail(events)
    /\ UNCHANGED << navOnline, tesseract, pc, sample, decodable, timer, caught,
                    outcome, settled, remoteCalls, localStarts, loaderCalls,
                    enhCount, enhAtSample, cbThrew, pendingLoads, route, remote, body >>
    /\ UNCHANGED objectUrls

\* ---------------------------------------------------------------- helpers
\* The promise returned by process settles: a value or an error.
Settle(d, o) ==
    /\ outcome' = [outcome EXCEPT ![d] = o]
    /\ settled' = [settled EXCEPT ![d] = @ + 1]
    /\ pc' = [pc EXCEPT ![d] = "done"]

Returned(text, src) == [tag |-> "text", val |-> text, by |-> src]
Thrown(e) == [tag |-> "error", val |-> e.msg, by |-> e.by]

\* The exception of an onProgress call that throws.
CallbackError == Err("callback threw", "callback")

\* URL.createObjectURL: the dispatch holds one more object URL, the one of
\* the file being decoded ("decode") or of the enhanced image ("image").
Created(d, url) == [objectUrls EXCEPT ![d] = @ \cup {url}]

\* URL.revokeObjectURL
Revoked(d, url) == [objectUrls EXCEPT ![d] = @ \ {url}]

\* `onProgress && onProgress(...)`: the caller's function runs and may throw.
NoteCallback(d, throws) ==
    cbThrew' = [cbThrew EXCEPT ![d] = @ \/ throws]

\* enhanceImage(file): img.onerror rejects with 'Failed to load image',
\* canvas.toBlob handing null rejects with 'Processing failed', else the blob.
enhanceImage(canDecode, canEncode) ==
    IF ~canDecode THEN Err("Failed to load image", "decode")
    ELSE IF ~canEncode THEN Err("Processing failed", "encode")
    ELSE NoError

\* Mutant of Route: the branch ignores the flag and always tries the remote
\* path first.
Route_ignoresSignal(online) == "on_cbEnhancing"

\* The branch of process on the flag it has just read.
Route(online) == IF online THEN "on_cbEnhancing" ELSE "off_cbMode"

\* The attempt a branch of process enters.
AttemptOf(label) == IF label = "on_cbEnhancing" THEN "remote" ELSE "local"

\* ---------------------------------------------------------------- process
\* process(file, onProgress): this.isOnline = navigator.onLine, then the
\* branch, with no await in between. The file handed in may or may not be
\* a decodable image. Calls are numbered in the order they are made.
process(d) ==
    /\ pc[d] = "idle"
    /\ \A e \in Dispatches : e < d => pc[e] # "idle"
    /\ \E dec \in BOOLEAN : decodable' = [decodable EXCEPT ![d] = dec]
    /\ isOnline' = navOnline
    /\ sample' = [sample EXCEPT ![d] = IF navOnline THEN "online" ELSE "offline"]
    /\ enhAtSample' = [enhAtSample EXCEPT ![d] =
                           enhCount[d].remote + enhCount[d].local]
    /\ pc' = [pc EXCEPT ![d] = Route(navOnline)]
    /\ route' = [route EXCEPT ![d] = << AttemptOf(Route(navOnline)) >>]
    /\ UNCHANGED << navOnline, events, tesseract, timer, caught, outcome,
                    settled, remoteCalls, localStarts, loaderCalls, enhCount,
                    cbThrew, pendingLoads, remote, body >>
    /\ UNCHANGED objectUrls

\* An error leaves processOnline: the catch of process holds it.
ToCatch(d, e) ==
    /\ caught' = [caught EXCEPT ![d] = e]
    /\ pc' = [pc EXCEPT ![d] = "catch"]

\* catch (err): console.warn(..., err.message), onProgress('Online failed,
\* using offline OCR...'), then return await this.processOffline(file,
\* onProgress). err goes out of scope with the catch block.
process_catch(d) ==
    /\ pc[d] = "catch"
    /\ caught' = [caught EXCEPT ![d] = NoError]
    /\ \E throws \in BOOLEAN :
        /\ NoteCallback(d, throws)
        /\ IF throws
           THEN /\ Settle(d, Thrown(CallbackError))
                /\ UNCHANGED << localStarts, route >>
           ELSE /\ pc' = [pc EXCEPT ![d] = "off_cbLoading"]
                /\ localStarts' = [localStarts EXCEPT ![d] = @ + 1]
                /\ route' = [route EXCEPT ![d] = Append(@, "local")]
                /\ UNCHANGED << outcome, settled >>
    /\ UNCHANGED << netVars, tesseract, sample, decodable, timer,
                    remoteCalls, loaderCalls, enhCount, enhAtSample,
                    pendingLoads, remote, body >>
    /\ UNCHANGED objectUrls

\* else branch: onProgress('Offline mode - using local OCR...'), then
\* return await this.processOffline(file, onProgress).
process_offline(d) ==
    /\ pc[d] = "off_cbMode"
    /\ \E throws \in BOOLEAN :
        /\ NoteCallback(d, throws)
        /\ IF throws
           THEN /\ Settle(d, Thrown(CallbackError))
                /\ UNCHANGED localStarts
           ELSE /\ pc' = [pc EXCEPT ![d] = "off_cbLoading"]
                /\ localStarts' = [localStarts EXCEPT ![d] = @ + 1]
                /\ UNCHANGED << outcome, settled >>
    /\ UNCHANGED << netVars, tesseract, sample, decodable, timer, caught,
                    remoteCalls, loaderCalls, enhCount, enhAtSample,
                    pendingLoads, route, remote, body >>
    /\ UNCHANGED objectUrls

\* ---------------------------------------------------------- processOnline
\* onProgress('Enhancing image...'); const enhanced = await
\* this.enhanceImage(file). A throw of the callback rejects processOnline.
processOnline_enhancing(d) ==
    /\ pc[d] = "on_cbEnhancing"
    /\ \E throws \in BOOLEAN :
        /\ NoteCallback(d, throws)
        /\ IF throws
           THEN /\ ToCatch(d, CallbackError)
                /\ UNCHANGED << enhCount, objectUrls >>
           ELSE /\ pc' = [pc EXCEPT ![d] = "on_enhance"]
                /\ enhCount' = [enhCount EXCEPT ![d].remote = @ + 1]
                /\ objectUrls' = Created(d, "decode")
                /\ UNCHANGED caught
    /\ UNCHANGED << netVars, tesseract, sample, decodable, timer, outcome,
                    settled, remoteCalls, localStarts, loaderCalls,
                    enhAtSample, pendingLoads, route, remote, body >>

\* The enhancement promise settles: the blob, or a rejection that leaves
\* processOnline. img.onload and img.onerror both revoke the URL of the
\* file.
processOnline_enhanced(d) ==
    /\ pc[d] = "on_enhance"
    /\ \E canEncode \in BOOLEAN :
        LET r == enhanceImage(decodable[d], canEncode) IN
        IF r = NoError
        THEN /\ pc' = [pc EXCEPT ![d] = "on_cbSending"]
             /\ UNCHANGED caught
        ELSE ToCatch(d, r)
    /\ objectUrls' = Revoked(d, "decode")
    /\ UNCHANGED << netVars, tesseract, sample, decodable, timer, outcome,
                    settled, remoteCalls, localStarts, loaderCalls, enhCount,
                    enhAtSample, cbThrew, pendingLoads, route, remote, body >>

\* Mutant of processOnline_send: OCR.isOnline is read again before the
\* request, and an offline flag diverts the dispatch to the local path.
processOnline_send_resampling(d) ==
    /\ pc[d] = "on_cbSending"
    /\ IF isOnline
       THEN /\ pc' = [pc EXCEPT ![d] = "on_fetch"]
            /\ timer' = [timer EXCEPT ![d] = "armed"]
            /\ remoteCalls' = [remoteCalls EXCEPT ![d] = @ + 1]
            /\ remote' = [remote EXCEPT ![d] = "pending"]
            /\ UNCHANGED localStarts
       ELSE /\ pc' = [pc EXCEPT ![d] = "off_cbLoading"]
            /\ localStarts' = [localStarts EXCEPT ![d] = @ + 1]
            /\ UNCHANGED << timer, remoteCalls, remote >>
    /\ UNCHANGED << netVars, tesseract, sample, decodable, outcome, settled,
                    caught, loaderCalls, enhCount, enhAtSample, cbThrew,
                    pendingLoads, route, body >>
    /\ UNCHANGED objectUrls

\* onProgress('Sending to OCR...'); the form data, the AbortController, the
\* timer, and fetch(this.API_URL, {method: 'POST', ...}).
processOnline_send(d) ==
    /\ pc[d] = "on_cbSending"
    /\ \E throws \in BOOLEAN :
        /\ NoteCallback(d, throws)
        /\ IF throws
           THEN /\ ToCatch(d, CallbackError)
                /\ UNCHANGED << timer, remoteCalls, remote >>
           ELSE /\ pc' = [pc EXCEPT ![d] = "on_fetch"]
                /\ timer' = [timer EXCEPT ![d] = "armed"]
                /\ remoteCalls' = [remoteCalls EXCEPT ![d] = @ + 1]
                /\ remote' = [remote EXCEPT ![d] = "pending"]
                /\ UNCHANGED caught
    /\ UNCHANGED << netVars, tesseract, sample, decodable, outcome, settled,
                    localStarts, loaderCalls, enhCount, enhAtSample,
                    pendingLoads, route, body >>
    /\ UNCHANGED objectUrls

\* Mutant of processOnline_response: the timer is not cleared when fetch
\* resolves, only in the catch.
processOnline_response_keepsTimer(d) ==
    /\ pc[d] = "on_fetch"
    /\ timer[d] = "armed"
    /\ \E s \in Statuses :
        IF ResponseOk(s)
        THEN /\ pc' = [pc EXCEPT ![d] = "on_json"]
             /\ UNCHANGED << caught, remote, timer >>
        ELSE /\ ToCatch(d, Err("HTTP " \o StatusText(s), "http"))
             /\ remote' = [remote EXCEPT ![d] = "failed"]
             /\ timer' = [timer EXCEPT ![d] = "cleared"]
    /\ UNCHANGED << netVars, tesseract, sample, decodable, outcome, settled,
                    remoteCalls, localStarts, loaderCalls, enhCount,
                    enhAtSample, cbThrew, pendingLoads, route, body >>
    /\ UNCHANGED objectUrls

\* fetch resolves with a response: clearTimeout(timeout); a status outside
\* 200..299 throws Error(`HTTP ${response.status}`), which the inner catch
\* rethrows; otherwise await response.json().
processOnline_response(d) ==
    /\ pc[d] = "on_fetch"
    /\ timer[d] = "armed"
    /\ timer' = [timer EXCEPT ![d] = "cleared"]
    /\ \E s \in Statuses :
        IF ResponseOk(s)
        THEN /\ pc' = [pc EXCEPT ![d] = "on_json"]
             /\ UNCHANGED << caught, remote >>
        ELSE /\ ToCatch(d, Err("HTTP " \o StatusText(s), "http"))
             /\ remote' = [remote EXCEPT ![d] = "failed"]
    /\ UNCHANGED << netVars, tesseract, sample, decodable, outcome, settled,
                    remoteCalls, localStarts, loaderCalls, enhCount,
                    enhAtSample, cbThrew, pendingLoads, route, body >>
    /\ UNCHANGED objectUrls

\* fetch rejects with a network error (a TypeError): the inner catch clears
\* the timer and rethrows it.
processOnline_networkError(d) ==
    /\ pc[d] = "on_fetch"
    /\ timer[d] = "armed"
    /\ timer' = [timer EXCEPT ![d] = "cleared"]
    /\ ToCatch(d, Err("Failed to fetch", "network"))
    /\ remote' = [remote EXCEPT ![d] = "failed"]
    /\ UNCHANGED << netVars, tesseract, sample, decodable, outcome, settled,
                    remoteCalls, localStarts, loaderCalls, enhCount,
                    enhAtSample, cbThrew, pendingLoads, route, body >>
    /\ UNCHANGED objectUrls

\* The timer fires while fetch is pending: controller.abort() rejects fetch
\* with an AbortError, which the inner catch turns into
\* Error('Request timed out').
processOnline_timeout(d) ==
    /\ pc[d] = "on_fetch"
    /\ timer[d] = "armed"
    /\ timer' = [timer EXCEPT ![d] = "fired"]
    /\ ToCatch(d, Err("Request timed out", "timeout"))
    /\ remote' = [remote EXCEPT ![d] = "failed"]
    /\ UNCHANGED << netVars, tesseract, sample, decodable, outcome, settled,
                    remoteCalls, localStarts, loaderCalls, enhCount,
                    enhAtSample, cbThrew, pendingLoads, route, body >>
    /\ UNCHANGED objectUrls

\* response.json() resolves: IsErroredOnProcessing throws
\* Error(data.ErrorMessage || 'OCR failed'); otherwise onProgress('Done!')
\* (inside the try: its throw is rethrown by the inner catch) and return text.
processOnline_json(d) ==
    /\ pc[d] = "on_json"
    /\ \E data \in Bodies, throws \in BOOLEAN :
        IF data.IsErroredOnProcessing
        THEN /\ ToCatch(d, Err(ApiErrorText(data), "api"))
             /\ remote' = [remote EXCEPT ![d] = "failed"]
             /\ UNCHANGED << outcome, settled, cbThrew, body >>
        ELSE /\ NoteCallback(d, throws)
             /\ remote' = [remote EXCEPT ![d] = "ok"]
             /\ body' = [body EXCEPT ![d] =
                           [read |-> TRUE,
                            ParsedResults |-> data.ParsedResults]]
             /\ IF throws
                THEN /\ ToCatch(d, CallbackError)
                     /\ UNCHANGED << outcome, settled >>
                ELSE /\ Settle(d, Returned(ParsedTextOf(data), "remote"))
                     /\ UNCHANGED caught
    /\ UNCHANGED << netVars, tesseract, sample, decodable, timer, remoteCalls,
                    localStarts, loaderCalls, enhCount, enhAtSample,
                    pendingLoads, route >>
    /\ UNCHANGED objectUrls

\* response.json() rejects (the body is not JSON, or the connection drops
\* while it is read): the inner catch rethrows.
processOnline_jsonError(d) ==
    /\ pc[d] = "on_json"
    /\ ToCatch(d, Err("Unexpected end of JSON input", "json"))
    /\ remote' = [remote EXCEPT ![d] = "failed"]
    /\ UNCHANGED << netVars, tesseract, sample, decodable, timer, outcome,
                    settled, remoteCalls, localStarts, loaderCalls, enhCount,
                    enhAtSample, cbThrew, pendingLoads, route, body >>
    /\ UNCHANGED objectUrls

\* --------------------------------------------------------- processOffline
\* catch (err) of processOffline: throw new Error('Offline OCR failed: ' +
\* err.message).
OfflineFailed(e) == Err("Offline OCR failed: " \o e.msg, e.by)

\* loadTesseract(): with Tesseract undefined, a new script element for the
\* CDN url is appended to document.head and its load awaited.
loadTesseract(d) ==
    /\ pc' = [pc EXCEPT ![d] = "off_loading"]
    /\ loaderCalls' = [loaderCalls EXCEPT ![d] = @ + 1]
    /\ pendingLoads' = pendingLoads + 1

\* Mutant of processOffline_loading: the loader remembers a failed load, and
\* every later call fails with it without a new script.
processOffline_loading_poisoned(d) ==
    /\ pc[d] = "off_cbLoading"
    /\ \E throws \in BOOLEAN :
        /\ NoteCallback(d, throws)
        /\ IF throws
           THEN /\ Settle(d, Thrown(CallbackError))
                /\ UNCHANGED << loaderCalls, pendingLoads >>
           ELSE IF \E e \in Dispatches : outcome[e].by = "engineLoad"
           THEN /\ Settle(d, Thrown(Err("Failed to load Tesseract.js",
                                        "engineLoad")))
                /\ UNCHANGED << loaderCalls, pendingLoads >>
           ELSE IF ~tesseract
           THEN /\ loadTesseract(d)
                /\ UNCHANGED << outcome, settled >>
           ELSE /\ pc' = [pc EXCEPT ![d] = "off_cbProcessing"]
                /\ UNCHANGED << outcome, settled, loaderCalls, pendingLoads >>
    /\ UNCHANGED << netVars, tesseract, sample, decodable, timer, caught,
                    remoteCalls, localStarts, enhCount, enhAtSample, route,
                    remote, body >>
    /\ UNCHANGED objectUrls

\* onProgress('Loading offline OCR engine...'); if (typeof Tesseract ===
\* 'undefined') await this.loadTesseract(). Outside the try: a throw of the
\* callback rejects processOffline as it is.
processOffline_loading(d) ==
    /\ pc[d] = "off_cbLoading"
    /\ \E throws \in BOOLEAN :
        /\ NoteCallback(d, throws)
        /\ IF throws
           THEN /\ Settle(d, Thrown(CallbackError))
                /\ UNCHANGED << loaderCalls, pendingLoads >>
           ELSE IF ~tesseract
           THEN /\ loadTesseract(d)
                /\ UNCHANGED << outcome, settled >>
           ELSE /\ pc' = [pc EXCEPT ![d] = "off_cbProcessing"]
                /\ UNCHANGED << outcome, settled, loaderCalls, pendingLoads >>
    /\ UNCHANGED << netVars, tesseract, sample, decodable, timer, caught,
                    remoteCalls, localStarts, enhCount, enhAtSample, route, remote, body >>
    /\ UNCHANGED objectUrls

\* script.onload: the script has defined the global Tesseract; resolve().
loadTesseract_onload(d) ==
    /\ pc[d] = "off_loading"
    /\ tesseract' = TRUE
    /\ pendingLoads' = pendingLoads - 1
    /\ pc' = [pc EXCEPT ![d] = "off_cbProcessing"]
    /\ UNCHANGED << netVars, sample, decodable, timer, caught, outcome,
                    settled, remoteCalls, localStarts, loaderCalls, enhCount,
                    enhAtSample, cbThrew, route, remote, body >>
    /\ UNCHANGED objectUrls

\* script.onerror: reject(new Error('Failed to load Tesseract.js')), which
\* leaves processOffline (the await is outside its try) and process.
loadTesseract_onerror(d) ==
    /\ pc[d] = "off_loading"
    /\ pendingLoads' = pendingLoads - 1
    /\ Settle(d, Thrown(Err("Failed to load Tesseract.js", "engineLoad")))
    /\ UNCHANGED << netVars, tesseract, sample, decodable, timer, caught,
                    remoteCalls, localStarts, loaderCalls, enhCount,
                    enhAtSample, cbThrew, route, remote, body >>
    /\ UNCHANGED objectUrls

\* Mutant of processOffline_processing: the local attempt of a fallback
\* reuses the image the remote attempt enhanced instead of enhancing again.
processOffline_processing_reusesImage(d) ==
    /\ pc[d] = "off_cbProcessing"
    /\ \E throws \in BOOLEAN :
        /\ NoteCallback(d, throws)
        /\ IF throws
           THEN /\ Settle(d, Thrown(CallbackError))
                /\ UNCHANGED << enhCount, objectUrls >>
           ELSE /\ pc' = [pc EXCEPT ![d] = "off_enhance"]
                /\ enhCount' = [enhCount EXCEPT ![d].local =
                                   IF enhCount[d].remote > 0 THEN @ ELSE @ + 1]
                /\ objectUrls' = IF enhCount[d].remote > 0
                                 THEN objectUrls
                                 ELSE Created(d, "decode")
                /\ UNCHANGED << outcome, settled >>
    /\ UNCHANGED << netVars, tesseract, sample, decodable, timer, caught,
                    remoteCalls, localStarts, loaderCalls, enhAtSample,
                    pendingLoads, route, remote, body >>

\* onProgress('Processing image offline...') (outside the try), then inside
\* the try: const enhanced = await this.enhanceImage(file).
processOffline_processing(d) ==
    /\ pc[d] = "off_cbProcessing"
    /\ \E throws \in BOOLEAN :
        /\ NoteCallback(d, throws)
        /\ IF throws
           THEN /\ Settle(d, Thrown(CallbackError))
                /\ UNCHANGED << enhCount, objectUrls >>
           ELSE /\ pc' = [pc EXCEPT ![d] = "off_enhance"]
                /\ enhCount' = [enhCount EXCEPT ![d].local = @ + 1]
                /\ objectUrls' = Created(d, "decode")
                /\ UNCHANGED << outcome, settled >>
    /\ UNCHANGED << netVars, tesseract, sample, decodable, timer, caught,
                    remoteCalls, localStarts, loaderCalls, enhAtSample,
                    pendingLoads, route, remote, body >>

\* The enhancement promise settles: a rejection is caught and wrapped;
\* otherwise URL.createObjectURL(enhanced) and await Tesseract.recognize(...).
processOffline_enhanced(d) ==
    /\ pc[d] = "off_enhance"
    /\ \E canEncode \in BOOLEAN :
        LET r == enhanceImage(decodable[d], canEncode) IN
        IF r = NoError
        THEN /\ pc' = [pc EXCEPT ![d] = "off_recognize"]
             /\ objectUrls' = [Revoked(d, "decode") EXCEPT ![d] =
                                  @ \cup {"image"}]
             /\ UNCHANGED << outcome, settled >>
        ELSE /\ Settle(d, Thrown(OfflineFailed(r)))
             /\ objectUrls' = Revoked(d, "decode")
    /\ UNCHANGED << netVars, tesseract, sample, decodable, timer, caught,
                    remoteCalls, localStarts, loaderCalls, enhCount,
                    enhAtSample, cbThrew, pendingLoads, route, remote, body >>

\* Tesseract.recognize resolves: revokeObjectURL, onProgress('Done!
\* (Offline)') (inside the try: its throw is caught and wrapped), return
\* result.data.text.
processOffline_recognized(d) ==
    /\ pc[d] = "off_recognize"
    /\ \E text \in LocalTexts, throws \in BOOLEAN :
        /\ NoteCallback(d, throws)
        /\ IF throws
           THEN Settle(d, Thrown(OfflineFailed(CallbackError)))
           ELSE Settle(d, Returned(text, "local"))
    /\ objectUrls' = Revoked(d, "image")
    /\ UNCHANGED << netVars, tesseract, sample, decodable, timer, caught,
                    remoteCalls, localStarts, loaderCalls, enhCount,
                    enhAtSample, pendingLoads, route, remote, body >>

\* Mutant of RecognitionFailure: the catch logs the exception and does not
\* rethrow, so process ends with neither a text nor an error.
RecognitionFailure_swallowed(d, e) ==
    /\ pc' = [pc EXCEPT ![d] = "done"]
    /\ UNCHANGED << outcome, settled, body >>

\* Mutant of RecognitionFailure: a failed local recognition goes back to the
\* remote path instead of ending the dispatch.
RecognitionFailure_retriesRemote(d, e) ==
    /\ pc' = [pc EXCEPT ![d] = "on_cbEnhancing"]
    /\ UNCHANGED << outcome, settled, body >>

\* What processOffline does with an exception of Tesseract.recognize: the
\* catch wraps it and throws, which rejects process.
RecognitionFailure(d, e) == Settle(d, Thrown(OfflineFailed(e)))

\* Tesseract.recognize rejects.
processOffline_recognizeError(d) ==
    /\ pc[d] = "off_recognize"
    /\ RecognitionFailure(d, Err("recognize failed", "recognition"))
    /\ UNCHANGED << netVars, tesseract, sample, decodable, timer, caught,
                    remoteCalls, localStarts, loaderCalls, enhCount,
                    enhAtSample, cbThrew, pendingLoads, route, remote, body >>
    /\ UNCHANGED objectUrls

\* ------------------------------------------------------------------- spec
DispatchStep(d) ==
    \/ process(d)
    \/ process_catch(d)
    \/ process_offline(d)
    \/ processOnline_enhancing(d)
    \/ processOnline_enhanced(d)
    \/ processOnline_send(d)
    \/ processOnline_response(d)
    \/ processOnline_networkError(d)
    \/ processOnline_timeout(d)
    \/ processOnline_json(d)
    \/ processOnline_jsonError(d)
    \/ processOffline_loading(d)
    \/ loadTesseract_onload(d)
    \/ loadTesseract_onerror(d)
    \/ processOffline_processing(d)
    \/ processOffline_enhanced(d)
    \/ processOffline_recognized(d)
    \/ processOffline_recognizeError(d)

Next ==
    \/ ConnectivityChange /\ UNCHANGED outsideDispatch
    \/ init_listener /\ UNCHANGED outsideDispatch
    \/ \E d \in Dispatches : DispatchStep(d) /\ UNCHANGED outsideDispatch

Spec == Init /\ [][Next]_vars

\* --------------------------------------------------------- service worker
\* caches.match(request): the first match over every cache of the storage.
Hit(u) == \E n \in cacheNames : u \in entries[n]

\* caches.open(name): the cache is created when it does not exist.
Opened(name) == cacheNames \cup {name}

\* cache.put / cache.add of a set of URLs into the cache called name.
Stored(name, us) == [entries EXCEPT ![name] = @ \cup us]

\* install: event.waitUntil(caches.open(CACHE_NAME) ...
sw_install_open ==
    /\ swPc = "install"
    /\ cacheNames' = Opened(CACHE_NAME)
    /\ swPc' = "addAll"
    /\ UNCHANGED << entries, skipWaitingFlag, pendingAdds, keysToDelete,
                    controller, fetches, installs, activations,
                    requiredFailed, addedOk, atInstall, inbox >>
    /\ UNCHANGED outsideWorker

\* Mutant of sw_install_addAll: a failed fetch of a required file is
\* skipped, the others are stored and the install goes on.
sw_install_addAll_unchecked ==
    /\ swPc = "addAll"
    /\ \E failing \in SUBSET CACHE_URLS :
        /\ requiredFailed' = failing
        /\ entries' = Stored(CACHE_NAME, CACHE_URLS \ failing)
        /\ swPc' = "reopen"
    /\ UNCHANGED << cacheNames, skipWaitingFlag, pendingAdds, keysToDelete,
                    controller, fetches, installs, activations, addedOk,
                    atInstall, inbox >>
    /\ UNCHANGED outsideWorker

\* cache.addAll(CACHE_URLS): every file is fetched and, when every answer is
\* ok, all are stored together; otherwise nothing is stored, the promise
\* rejects, waitUntil fails the install and the worker is discarded.
sw_install_addAll ==
    /\ swPc = "addAll"
    /\ \E failing \in SUBSET CACHE_URLS :
        /\ requiredFailed' = failing
        /\ IF failing = {}
           THEN /\ entries' = Stored(CACHE_NAME, CACHE_URLS)
                /\ swPc' = "reopen"
           ELSE /\ swPc' = "redundant"
                /\ UNCHANGED entries
    /\ UNCHANGED << cacheNames, skipWaitingFlag, pendingAdds, keysToDelete,
                    controller, fetches, installs, activations, addedOk,
                    atInstall, inbox >>
    /\ UNCHANGED outsideWorker

\* .then(() => caches.open(CACHE_NAME).then(cache => Promise.allSettled(
\* TESSERACT_URLS.map(url => cache.add(url)))))
sw_install_reopen ==
    /\ swPc = "reopen"
    /\ cacheNames' = Opened(CACHE_NAME)
    /\ pendingAdds' = TESSERACT_URLS
    /\ swPc' = "adding"
    /\ UNCHANGED << entries, skipWaitingFlag, keysToDelete, controller,
                    fetches, installs, activations, requiredFailed, addedOk,
                    atInstall, inbox >>
    /\ UNCHANGED outsideWorker

\* Mutant of sw_install_add: the adds are joined by Promise.all, so one
\* failed add rejects the install.
sw_install_add_rejecting(u, ok) ==
    /\ swPc = "adding"
    /\ u \in pendingAdds
    /\ pendingAdds' = pendingAdds \ {u}
    /\ IF ok
       THEN /\ entries' = Stored(CACHE_NAME, {u})
            /\ addedOk' = addedOk \cup {u}
            /\ UNCHANGED swPc
       ELSE /\ swPc' = "redundant"
            /\ UNCHANGED << entries, addedOk >>
    /\ UNCHANGED << cacheNames, skipWaitingFlag, keysToDelete, controller,
                    fetches, installs, activations, requiredFailed,
                    atInstall, inbox >>
    /\ UNCHANGED outsideWorker

\* One cache.add(url) settles: fulfilled with the file stored when its
\* answer is ok, rejected otherwise; allSettled waits for the others.
sw_install_add(u, ok) ==
    /\ swPc = "adding"
    /\ u \in pendingAdds
    /\ pendingAdds' = pendingAdds \ {u}
    /\ IF ok
       THEN /\ entries' = Stored(CACHE_NAME, {u})
            /\ addedOk' = addedOk \cup {u}
       ELSE UNCHANGED << entries, addedOk >>
    /\ UNCHANGED << cacheNames, swPc, skipWaitingFlag, keysToDelete,
                    controller, fetches, installs, activations,
                    requiredFailed, atInstall, inbox >>
    /\ UNCHANGED outsideWorker

\* .then(() => self.skipWaiting()): allSettled has fulfilled, the install
\* succeeds and the worker is installed.
sw_install_skipWaiting ==
    /\ swPc = "adding"
    /\ pendingAdds = {}
    /\ skipWaitingFlag' = TRUE
    /\ swPc' = "installed"
    /\ UNCHANGED << cacheNames, entries, pendingAdds, keysToDelete,
                    controller, fetches, installs, activations,
                    requiredFailed, addedOk, atInstall, inbox >>
    /\ UNCHANGED outsideWorker

\* The browser registers the script again after a failed install: a new
\* worker of the same script gets its install event.
sw_reinstall ==
    /\ swPc = "redundant"
    /\ installs < MaxInstalls
    /\ installs' = installs + 1
    /\ swPc' = "install"
    /\ skipWaitingFlag' = FALSE
    /\ requiredFailed' = {}
    /\ addedOk' = {}
    /\ atInstall' = [names |-> cacheNames, entries |-> entries,
                     controller |-> controller]
    /\ inbox' = << >>
    /\ UNCHANGED << cacheNames, entries, pendingAdds, keysToDelete,
                    controller, fetches, activations >>
    /\ UNCHANGED outsideWorker

\* The browser activates the installed worker (its skip-waiting flag is set
\* or no page is controlled): the pages of the previous worker pass to it
\* and the activate handler calls caches.keys().
sw_activate ==
    /\ swPc = "installed"
    /\ skipWaitingFlag \/ controller = "none"
    /\ activations' = activations + 1
    /\ controller' = IF controller = "previous" THEN "current" ELSE controller
    /\ swPc' = "keys"
    /\ UNCHANGED << cacheNames, entries, skipWaitingFlag, pendingAdds,
                    keysToDelete, fetches, installs, requiredFailed, addedOk,
                    atInstall, inbox >>
    /\ UNCHANGED outsideWorker

\* caches.keys().then(keys => Promise.all(keys.filter(key => key !==
\* CACHE_NAME).map(key => caches.delete(key))))
sw_activate_keys ==
    /\ swPc = "keys"
    /\ keysToDelete' = cacheNames \ {CACHE_NAME}
    /\ swPc' = "deleting"
    /\ UNCHANGED << cacheNames, entries, skipWaitingFlag, pendingAdds,
                    controller, fetches, installs, activations,
                    requiredFailed, addedOk, atInstall, inbox >>
    /\ UNCHANGED outsideWorker

\* One caches.delete(key) settles.
sw_activate_delete(k) ==
    /\ swPc = "deleting"
    /\ k \in keysToDelete
    /\ keysToDelete' = keysToDelete \ {k}
    /\ cacheNames' = cacheNames \ {k}
    /\ entries' = [entries EXCEPT ![k] = {}]
    /\ UNCHANGED << swPc, skipWaitingFlag, pendingAdds, controller, fetches,
                    installs, activations, requiredFailed, addedOk,
                    atInstall, inbox >>
    /\ UNCHANGED outsideWorker

\* Mutant of sw_activate_claim: claim is not chained after the deletions and
\* may run while some are pending.
sw_activate_claim_unordered ==
    /\ swPc = "deleting"
    /\ controller' = "current"
    /\ swPc' = "activated"
    /\ UNCHANGED << cacheNames, entries, skipWaitingFlag, pendingAdds,
                    keysToDelete, fetches, installs, activations,
                    requiredFailed, addedOk, atInstall, inbox >>
    /\ UNCHANGED outsideWorker

\* .then(() => self.clients.claim()): the activation is complete.
sw_activate_claim ==
    /\ swPc = "deleting"
    /\ keysToDelete = {}
    /\ controller' = "current"
    /\ swPc' = "activated"
    /\ UNCHANGED << cacheNames, entries, skipWaitingFlag, pendingAdds,
                    keysToDelete, fetches, installs, activations,
                    requiredFailed, addedOk, atInstall, inbox >>
    /\ UNCHANGED outsideWorker

\* Mutant of sw_message: the handler does nothing with the message.
sw_message_ignored(data) ==
    /\ swPc # "redundant"
    /\ Len(inbox) < MaxMessages
    /\ inbox' = Append(inbox, data)
    /\ UNCHANGED << cacheNames, entries, swPc, skipWaitingFlag, pendingAdds,
                    keysToDelete, controller, fetches, installs, activations,
                    requiredFailed, addedOk, atInstall >>
    /\ UNCHANGED outsideWorker

\* message: if (event.data === 'skipWaiting') self.skipWaiting(). A
\* discarded worker gets no events.
sw_message(data) ==
    /\ swPc # "redundant"
    /\ Len(inbox) < MaxMessages
    /\ inbox' = Append(inbox, data)
    /\ skipWaitingFlag' = (skipWaitingFlag \/ data = "skipWaiting")
    /\ UNCHANGED << cacheNames, entries, swPc, pendingAdds, keysToDelete,
                    controller, fetches, installs, activations,
                    requiredFailed, addedOk, atInstall >>
    /\ UNCHANGED outsideWorker

\* A worker receives fetch events when it controls the pages; the script's
\* worker receives them once it is activated.
Serving(w) ==
    /\ controller = w
    /\ w = "current" => swPc = "activated"

\* Mutant of sw_fetch: the method is not looked at, every request is
\* answered with caches.match(event.request)...
sw_fetch_anyMethod(f, w, u, m) ==
    /\ fetches[f] = NoFetch
    /\ \A g \in FetchIds : g < f => fetches[g] # NoFetch
    /\ Serving(w)
    /\ fetches' = [fetches EXCEPT ![f] =
                     [worker |-> w, url |-> u, method |-> m,
                      pc |-> "match", answer |-> Answer("none", 0)]]
    /\ UNCHANGED << cacheNames, entries, swPc, skipWaitingFlag, pendingAdds,
                    keysToDelete, controller, installs, activations,
                    requiredFailed, addedOk, atInstall, inbox >>
    /\ UNCHANGED outsideWorker

\* fetch: a request of a page reaches the controlling worker. A request
\* that is not a GET is left to the browser (return without respondWith);
\* for a GET the handler answers with caches.match(event.request)...
sw_fetch(f, w, u, m) ==
    /\ fetches[f] = NoFetch
    /\ \A g \in FetchIds : g < f => fetches[g] # NoFetch
    /\ Serving(w)
    /\ fetches' = [fetches EXCEPT ![f] =
                     IF m # "GET"
                     THEN [worker |-> w, url |-> u, method |-> m,
                           pc |-> "done", answer |-> Answer("browser", 0)]
                     ELSE [worker |-> w, url |-> u, method |-> m,
                           pc |-> "match", answer |-> Answer("none", 0)]]
    /\ UNCHANGED << cacheNames, entries, swPc, skipWaitingFlag, pendingAdds,
                    keysToDelete, controller, installs, activations,
                    requiredFailed, addedOk, atInstall, inbox >>
    /\ UNCHANGED outsideWorker

\* The handler has one branch for same-origin requests and one for the
\* others. Each operator below is one callback of one branch: the fetch
\* event after the callback has run.

\* Mutant of OnMatch_sameOrigin: the network is asked whatever the lookup
\* found.
OnMatch_sameOrigin_networkFirst(e) == [e EXCEPT !.pc = "network"]

\* same origin: .then(response => { if (response) return response; return
\* fetch(event.request) ... })
OnMatch_sameOrigin(e) ==
    IF Hit(e.url)
    THEN [e EXCEPT !.pc = "done", !.answer = Answer("cache", 200)]
    ELSE [e EXCEPT !.pc = "network"]

\* other origins: .then(response => { if (response) return response;
\* return fetch(event.request) ... })
OnMatch_crossOrigin(e) ==
    IF Hit(e.url)
    THEN [e EXCEPT !.pc = "done", !.answer = Answer("cache", 200)]
    ELSE [e EXCEPT !.pc = "network"]

\* Mutant of OnNetwork_sameOrigin: the answer is stored whatever its status.
OnNetwork_sameOrigin_storesAll(e, status) ==
    [e EXCEPT !.pc = "open", !.answer = Answer("network", status)]

\* same origin: .then(networkResponse => { if (networkResponse.ok) { ...
\* caches.open(CACHE_NAME).then(...) } return networkResponse; }): the page
\* gets the network's answer; the store of an ok answer is left running.
OnNetwork_sameOrigin(e, status) ==
    [e EXCEPT !.pc = IF ResponseOk(status) THEN "open" ELSE "done",
              !.answer = Answer("network", status)]

\* Mutant of OnNetwork_crossOrigin: answers of other origins are not stored.
OnNetwork_crossOrigin_unstored(e, status) ==
    [e EXCEPT !.pc = "done", !.answer = Answer("network", status)]

\* other origins: the same callback (sw.js:105-112).
OnNetwork_crossOrigin(e, status) ==
    [e EXCEPT !.pc = IF ResponseOk(status) THEN "open" ELSE "done",
              !.answer = Answer("network", status)]

\* Mutant of OnNetworkError_sameOrigin: nothing catches the rejection of
\* fetch, and respondWith gets a rejected promise.
OnNetworkError_sameOrigin_rejecting(e) ==
    [e EXCEPT !.pc = "done", !.answer = Answer("rejected", 0)]

\* same origin: .catch(() => new Response('Offline', { status: 503 }))
OnNetworkError_sameOrigin(e) ==
    [e EXCEPT !.pc = "done", !.answer = Answer("synthetic", 503)]

\* other origins: .catch(() => new Response('Offline', { status: 503 }))
OnNetworkError_crossOrigin(e) ==
    [e EXCEPT !.pc = "done", !.answer = Answer("synthetic", 503)]

\* The cache the store of each branch opens: caches.open(CACHE_NAME), with
\* the CACHE_NAME of the worker that handles the event.
StoreName_sameOrigin(e) == CacheNameOf(e.worker)
StoreName_crossOrigin(e) == CacheNameOf(e.worker)
StoreName(e) ==
    IF SameOrigin(e.url) THEN StoreName_sameOrigin(e)
    ELSE StoreName_crossOrigin(e)

\* caches.match(event.request) has settled.
sw_fetch_match(f) ==
    /\ fetches[f].pc = "match"
    /\ fetches' = [fetches EXCEPT ![f] =
                     IF SameOrigin(fetches[f].url)
                     THEN OnMatch_sameOrigin(fetches[f])
                     ELSE OnMatch_crossOrigin(fetches[f])]
    /\ UNCHANGED << cacheNames, entries, swPc, skipWaitingFlag, pendingAdds,
                    keysToDelete, controller, installs, activations,
                    requiredFailed, addedOk, atInstall, inbox >>
    /\ UNCHANGED outsideWorker

\* fetch(event.request) has answered.
sw_fetch_network(f, status) ==
    /\ fetches[f].pc = "network"
    /\ fetches' = [fetches EXCEPT ![f] =
                     IF SameOrigin(fetches[f].url)
                     THEN OnNetwork_sameOrigin(fetches[f], status)
                     ELSE OnNetwork_crossOrigin(fetches[f], status)]
    /\ UNCHANGED << cacheNames, entries, swPc, skipWaitingFlag, pendingAdds,
                    keysToDelete, controller, installs, activations,
                    requiredFailed, addedOk, atInstall, inbox >>
    /\ UNCHANGED outsideWorker

\* fetch(event.request) has rejected: the network cannot be reached.
sw_fetch_networkError(f) ==
    /\ fetches[f].pc = "network"
    /\ fetches' = [fetches EXCEPT ![f] =
                     IF SameOrigin(fetches[f].url)
                     THEN OnNetworkError_sameOrigin(fetches[f])
                     ELSE OnNetworkError_crossOrigin(fetches[f])]
    /\ UNCHANGED << cacheNames, entries, swPc, skipWaitingFlag, pendingAdds,
                    keysToDelete, controller, installs, activations,
                    requiredFailed, addedOk, atInstall, inbox >>
    /\ UNCHANGED outsideWorker

\* caches.open(CACHE_NAME) of the store has settled.
sw_fetch_open(f) ==
    /\ fetches[f].pc = "open"
    /\ cacheNames' = Opened(StoreName(fetches[f]))
    /\ fetches' = [fetches EXCEPT ![f].pc = "put"]
    /\ UNCHANGED << entries, swPc, skipWaitingFlag, pendingAdds,
                    keysToDelete, controller, installs, activations,
                    requiredFailed, addedOk, atInstall, inbox >>
    /\ UNCHANGED outsideWorker

\* .then(cache => cache.put(event.request, clone)); a cache deleted since it
\* was opened is no longer part of the storage.
sw_fetch_put(f) ==
    /\ fetches[f].pc = "put"
    /\ entries' = IF StoreName(fetches[f]) \in cacheNames
                  THEN Stored(StoreName(fetches[f]), {fetches[f].url})
                  ELSE entries
    /\ fetches' = [fetches EXCEPT ![f].pc = "done"]
    /\ UNCHANGED << cacheNames, swPc, skipWaitingFlag, pendingAdds,
                    keysToDelete, controller, installs, activations,
                    requiredFailed, addedOk, atInstall, inbox >>
    /\ UNCHANGED outsideWorker

FetchStep(f) ==
    \/ \E w \in Workers, u \in Urls, m \in Methods : sw_fetch(f, w, u, m)
    \/ sw_fetch_match(f)
    \/ \E status \in Statuses : sw_fetch_network(f, status)
    \/ sw_fetch_networkError(f)
    \/ sw_fetch_open(f)
    \/ sw_fetch_put(f)

NextCache ==
    \/ sw_install_open
    \/ sw_install_addAll
    \/ sw_install_reopen
    \/ \E u \in TESSERACT_URLS, ok \in BOOLEAN : sw_install_add(u, ok)
    \/ sw_install_skipWaiting
    \/ sw_reinstall
    \/ sw_activate
    \/ sw_activate_keys
    \/ \E k \in CacheNames : sw_activate_delete(k)
    \/ sw_activate_claim
    \/ \E data \in MessageData : sw_message(data)
    \/ \E f \in FetchIds : FetchStep(f)

InitCache ==
    /\ CacheStart
    /\ BatchIdle
    /\ ImageIdle
    /\ ScanIdle
    /\ navOnline = TRUE
    /\ DispatchIdle

SpecCache == InitCache /\ [][NextCache]_swVars

\* The callbacks of the store, .then(cache => cache.put(...)) after
\* caches.open(CACHE_NAME), are promise reactions: each runs once its
\* promise has settled, as long as the worker is kept running.
FairStores ==
    \A f \in FetchIds :
        /\ WF_swVars(sw_fetch_open(f))
        /\ WF_swVars(sw_fetch_put(f))

SpecCacheFair == SpecCache /\ FairStores

\* ---------------------------------------------------------- batch upload
\* for (const file of files) { if (this.batchCancelled) { toast; break; }
\* try { processed++; ... await this.fileToDataUrl(file) ...: the call goes
\* round its loop. With no file left the loop ends; with the flag set it
\* shows the cancelled summary and breaks; otherwise the next file is begun.
\* After the loop: await this.loadHistory().
LoopTop(b, done, nSaved) ==
    IF processed[b] = files[b]
    THEN /\ bpc' = [bpc EXCEPT ![b] = "history"]
         /\ items' = [items EXCEPT ![b] = done]
         /\ saved' = [saved EXCEPT ![b] = nSaved]
         /\ UNCHANGED << processed, summary, sawCancel >>
    ELSE IF batchCancelled
    THEN /\ summary' = [summary EXCEPT ![b].cancelled = @ + 1]
         /\ sawCancel' = [sawCancel EXCEPT ![b] = TRUE]
         /\ bpc' = [bpc EXCEPT ![b] = "history"]
         /\ items' = [items EXCEPT ![b] = done]
         /\ saved' = [saved EXCEPT ![b] = nSaved]
         /\ UNCHANGED processed
    ELSE /\ processed' = [processed EXCEPT ![b] = @ + 1]
         /\ items' = [items EXCEPT ![b] =
                        [done EXCEPT ![processed[b] + 1] = "started"]]
         /\ saved' = [saved EXCEPT ![b] = nSaved]
         /\ bpc' = [bpc EXCEPT ![b] = "read"]
         /\ UNCHANGED << summary, sawCancel >>

\* The file of the call that is being processed ends as how.
Ended(b, how) == [items[b] EXCEPT ![processed[b]] = how]

\* handleBatchFiles(e): with no file it returns; otherwise it stores the
\* queue, clears the flag and begins the first file (await fileToDataUrl).
handleBatchFiles(b, n) ==
    /\ bpc[b] = "idle"
    /\ \A a \in Batches : a < b => bpc[a] # "idle"
    /\ files' = [files EXCEPT ![b] = n]
    /\ IF n = 0
       THEN /\ bpc' = [bpc EXCEPT ![b] = "done"]
            /\ UNCHANGED << batchCancelled, processed, items >>
       ELSE /\ batchCancelled' = FALSE
            /\ processed' = [processed EXCEPT ![b] = 1]
            /\ items' = [items EXCEPT ![b][1] = "started"]
            /\ bpc' = [bpc EXCEPT ![b] = "read"]
    /\ UNCHANGED << saved, summary, sawCancel, cancelAsked >>
    /\ UNCHANGED outsideBatch

\* Mutant of handleBatchFiles_read: nothing catches the error of a file
\* that cannot be read, and it ends the loop.
handleBatchFiles_read_stopping(b, ok) ==
    /\ bpc[b] = "read"
    /\ IF ok
       THEN /\ bpc' = [bpc EXCEPT ![b] = "ocr"]
            /\ UNCHANGED << processed, saved, items, summary, sawCancel >>
       ELSE /\ bpc' = [bpc EXCEPT ![b] = "history"]
            /\ items' = [items EXCEPT ![b] = Ended(b, "failed")]
            /\ UNCHANGED << processed, saved, summary, sawCancel >>
    /\ UNCHANGED << batchCancelled, files, cancelAsked >>
    /\ UNCHANGED outsideBatch

\* await this.fileToDataUrl(file) settles: OCR.process is called, or the
\* catch logs the error and the loop goes on.
handleBatchFiles_read(b, ok) ==
    /\ bpc[b] = "read"
    /\ IF ok
       THEN /\ bpc' = [bpc EXCEPT ![b] = "ocr"]
            /\ UNCHANGED << processed, saved, items, summary, sawCancel >>
       ELSE LoopTop(b, Ended(b, "failed"), saved[b])
    /\ UNCHANGED << batchCancelled, files, cancelAsked >>
    /\ UNCHANGED outsideBatch

\* Mutant of handleBatchFiles_ocr: the flag is looked at when OCR.process
\* has settled, and a cancelled batch drops the file it is working on.
handleBatchFiles_ocr_preemptible(b, result) ==
    /\ bpc[b] = "ocr"
    /\ IF batchCancelled
       THEN /\ bpc' = [bpc EXCEPT ![b] = "history"]
            /\ summary' = [summary EXCEPT ![b].cancelled = @ + 1]
            /\ sawCancel' = [sawCancel EXCEPT ![b] = TRUE]
            /\ UNCHANGED << processed, saved, items >>
       ELSE IF result = "text"
       THEN /\ bpc' = [bpc EXCEPT ![b] = "store"]
            /\ UNCHANGED << processed, saved, items, summary, sawCancel >>
       ELSE LoopTop(b, Ended(b, "failed"), saved[b])
    /\ UNCHANGED << batchCancelled, files, cancelAsked >>
    /\ UNCHANGED outsideBatch

\* await OCR.process(file, ...) settles: with a text that Parser.parse
\* accepts, Storage.save is called; when process rejects or parse throws,
\* the catch logs the error and the loop goes on.
handleBatchFiles_ocr(b, result) ==
    /\ bpc[b] = "ocr"
    /\ IF result = "text"
       THEN /\ bpc' = [bpc EXCEPT ![b] = "store"]
            /\ UNCHANGED << processed, saved, items, summary, sawCancel >>
       ELSE LoopTop(b, Ended(b, "failed"), saved[b])
    /\ UNCHANGED << batchCancelled, files, cancelAsked >>
    /\ UNCHANGED outsideBatch

\* await Storage.save(scan) settles: saved++, or the catch; the loop goes on.
handleBatchFiles_save(b, ok) ==
    /\ bpc[b] = "store"
    /\ IF ok
       THEN LoopTop(b, Ended(b, "saved"), saved[b] + 1)
       ELSE LoopTop(b, Ended(b, "failed"), saved[b])
    /\ UNCHANGED << batchCancelled, files, cancelAsked >>
    /\ UNCHANGED outsideBatch

\* await this.loadHistory() settles: if (!this.batchCancelled) the completed
\* summary is shown; when loadHistory rejects, so does handleBatchFiles.
handleBatchFiles_history(b, ok) ==
    /\ bpc[b] = "history"
    /\ bpc' = [bpc EXCEPT ![b] = "done"]
    /\ summary' = IF ok /\ ~batchCancelled
                  THEN [summary EXCEPT ![b].complete = @ + 1]
                  ELSE summary
    /\ UNCHANGED << batchCancelled, files, processed, saved, items,
                    sawCancel, cancelAsked >>
    /\ UNCHANGED outsideBatch

\* A handleBatchFiles call that has begun and not yet returned.
Running(b) == bpc[b] \notin {"idle", "done"}

\* cancelBatchProcessing(): this.batchCancelled = true (and a toast that is
\* not a summary).
cancelBatchProcessing ==
    /\ batchCancelled' = TRUE
    /\ cancelAsked' = [b \in Batches |-> cancelAsked[b] \/ Running(b)]
    /\ UNCHANGED << bpc, files, processed, saved, items, summary, sawCancel >>
    /\ UNCHANGED outsideBatch

OcrResults == {"text", "rejects", "parseThrows"}

BatchStep(b) ==
    \/ \E n \in 0..MaxFiles : handleBatchFiles(b, n)
    \/ \E ok \in BOOLEAN : handleBatchFiles_read(b, ok)
    \/ \E result \in OcrResults : handleBatchFiles_ocr(b, result)
    \/ \E ok \in BOOLEAN : handleBatchFiles_save(b, ok)
    \/ \E ok \in BOOLEAN : handleBatchFiles_history(b, ok)

NextBatch ==
    \/ cancelBatchProcessing
    \/ \E b \in Batches : BatchStep(b)

InitBatch ==
    /\ CacheIdle
    /\ BatchIdle
    /\ ImageIdle
    /\ ScanIdle
    /\ navOnline = TRUE
    /\ DispatchIdle

SpecBatch == InitBatch /\ [][NextBatch]_batchVars

\* -------------------------------------------------------- image enhancement
\* canvas.width = w, canvas.height = h: the size attributes of a canvas are
\* integers, and a number assigned to them loses its fraction. The number
\* is the fraction num / den, which is not negative, so what is kept is its
\* integer part.
CanvasSize(num, den) == num \div den

\* Mutant of ScaledSize: the width is capped and the height is left as it is.
ScaledSize_widthOnly(width, height) ==
    IF width > maxWidth
    THEN [w |-> maxWidth, hNum |-> height, hDen |-> 1]
    ELSE [w |-> width, hNum |-> height, hDen |-> 1]

\* let w = img.width; let h = img.height; if (w > maxWidth) { h = (h *
\* maxWidth) / w; w = maxWidth; } with h kept as the fraction hNum / hDen.
ScaledSize(width, height) ==
    IF width > maxWidth
    THEN [w |-> maxWidth, hNum |-> height * maxWidth, hDen |-> width]
    ELSE [w |-> width, hNum |-> height, hDen |-> 1]

\* const contrast = 1.3, in tenths: the arithmetic of applyEnhancements is
\* done in tenths, where every value it computes from a channel is a whole
\* number.
contrast == 13

\* avgBrightness < 128
darkBelow == 128

\* The brightness offset of a dark image.
darkOffset == 20

RECURSIVE TotalBrightness(_)
\* totalBrightness += (data[i] + data[i + 1] + data[i + 2]) / 3 over every
\* pixel, in thirds.
TotalBrightness(px) ==
    IF px = << >>
    THEN 0
    ELSE Head(px)[1] + Head(px)[2] + Head(px)[3] + TotalBrightness(Tail(px))

\* const brightnessFactor = avgBrightness < 128 ? 20 : 0, with avgBrightness
\* = totalBrightness / (data.length / 4).
brightnessFactor(px) ==
    IF TotalBrightness(px) < darkBelow * 3 * Len(px) THEN darkOffset ELSE 0

\* Mutant of EnhancedChannel: the value is not clamped.
EnhancedChannel_unclamped(v, factor) ==
    (v - 128) * contrast + 1280 + factor * 10

\* Math.min(255, Math.max(0, ((v - 128) * contrast) + 128 +
\* brightnessFactor)), in tenths.
EnhancedChannel(v, factor) ==
    LET value == (v - 128) * contrast + 1280 + factor * 10
        atLeast0 == IF value > 0 THEN value ELSE 0
    IN  IF atLeast0 < 2550 THEN atLeast0 ELSE 2550

\* data[i] = value: an element of a Uint8ClampedArray keeps a number as the
\* nearest integer of 0..255, a tie going to the even one.
Uint8Clamped(tenths) ==
    LET whole == tenths \div 10
        rest == tenths % 10
    IN  IF tenths <= 0 THEN 0
        ELSE IF tenths >= 2550 THEN 255
        ELSE IF rest < 5 THEN whole
        ELSE IF rest > 5 THEN whole + 1
        ELSE IF whole % 2 = 0 THEN whole ELSE whole + 1

\* applyEnhancements: every colour channel of every pixel is replaced; the
\* alpha channel is left alone. ctx.filter is assigned after putImageData
\* and nothing is drawn afterwards, so it changes no pixel.
applyEnhancements(px) ==
    LET factor == brightnessFactor(px)
    IN  [i \in 1..Len(px) |->
            [c \in Channels |->
                Uint8Clamped(EnhancedChannel(px[i][c], factor))]]

\* enhanceImage is given a file, which decodes to an image of some size and
\* content.
enhanceImage_decode(width, height, px) ==
    /\ ~img.loaded
    /\ img' = [width |-> width, height |-> height, loaded |-> TRUE]
    /\ pixels' = px
    /\ UNCHANGED << canvas, imageData >>
    /\ UNCHANGED outsideEnhance

\* img.onload: the canvas is created with the scaled size, the image is
\* drawn on it and applyEnhancements rewrites its pixels.
enhanceImage_onload ==
    /\ img.loaded
    /\ ~canvas.created
    /\ LET size == ScaledSize(img.width, img.height)
       IN  canvas' = [width |-> CanvasSize(size.w, 1),
                      height |-> CanvasSize(size.hNum, size.hDen),
                      created |-> TRUE]
    /\ imageData' = applyEnhancements(pixels)
    /\ UNCHANGED << img, pixels >>
    /\ UNCHANGED outsideEnhance

NextEnhance ==
    \/ \E width \in ImageWidths, height \in ImageHeights,
          px \in [1..NumPixels -> SamplePixels] :
          enhanceImage_decode(width, height, px)
    \/ enhanceImage_onload

InitEnhance ==
    /\ CacheIdle
    /\ BatchIdle
    /\ ImageIdle
    /\ ScanIdle
    /\ navOnline = TRUE
    /\ DispatchIdle

SpecEnhance == InitEnhance /\ [][NextEnhance]_imageVars

\* ------------------------------------------------------------ single scan
\* this.toast(msg)
Toast(shown, msg) == Append(shown, msg)

\* What handleFile does when `await this.save()` has returned: the toast
\* 'Saved! Ready for next'. A click on the save button has nothing after
\* save.
AfterSave(who, shown) ==
    IF who = "handleFile" THEN Toast(shown, ToastReady) ELSE shown

\* save() with a current scan, up to its first await: the inputs are read
\* into the scan; without rack or shelf the toast 'Rack and Shelf are
\* mandatory' is shown and save returns; otherwise Storage.save(scan) is
\* called.
SaveBegin(who, shown) ==
    LET scan == [present |-> TRUE, rackNo |-> rackNo, shelfNo |-> shelfNo]
    IN  /\ currentScan' = scan
        /\ IF scan.rackNo = "" \/ scan.shelfNo = ""
           THEN /\ toasts' = AfterSave(who, Toast(shown, ToastMandatory))
                /\ spc' = "idle"
                /\ caller' = "none"
           ELSE /\ toasts' = shown
                /\ spc' = "storing"
                /\ caller' = who

\* The user edits the rack and shelf inputs.
editLocation(rack, shelf) ==
    /\ << rack, shelf >> # << rackNo, shelfNo >>
    /\ rackNo' = rack
    /\ shelfNo' = shelf
    /\ UNCHANGED << spc, caller, continuous, currentScan, records, toasts,
                    wrote, scans, clicks >>
    /\ UNCHANGED outsideScan

\* The user ticks or unticks the continuous checkbox.
toggleContinuous ==
    /\ continuous' = ~continuous
    /\ UNCHANGED << spc, caller, rackNo, shelfNo, currentScan, records,
                    toasts, wrote, scans, clicks >>
    /\ UNCHANGED outsideScan

\* handleFile(e) with a file, in quick mode: the data URL is read and
\* OCR.process is called.
handleFile ==
    /\ spc = "idle"
    /\ scans < MaxScans
    /\ scans' = scans + 1
    /\ spc' = "ocr"
    /\ toasts' = << >>
    /\ wrote' = FALSE
    /\ UNCHANGED << caller, continuous, rackNo, shelfNo, currentScan,
                    records, clicks >>
    /\ UNCHANGED outsideScan

\* OCR.process settles. A rejection goes to the catch of handleFile, which
\* shows the error. Otherwise the text is parsed into this.currentScan and
\* shown, and in continuous mode save is called and awaited.
handleFile_processed(ok) ==
    /\ spc = "ocr"
    /\ IF ~ok
       THEN /\ toasts' = Toast(toasts, ToastError)
            /\ spc' = "idle"
            /\ UNCHANGED << caller, currentScan >>
       ELSE IF continuous
       THEN SaveBegin("handleFile", toasts)
       ELSE /\ currentScan' = [present |-> TRUE, rackNo |-> "", shelfNo |-> ""]
            /\ spc' = "idle"
            /\ UNCHANGED << caller, toasts >>
    /\ UNCHANGED << continuous, rackNo, shelfNo, records, wrote, scans,
                    clicks >>
    /\ UNCHANGED outsideScan

\* A click on the save button: save(). Without a current scan the toast
\* 'Nothing to save' is shown.
save ==
    /\ spc = "idle"
    /\ clicks < MaxClicks
    /\ clicks' = clicks + 1
    /\ IF ~currentScan.present
       THEN /\ toasts' = << ToastNothing >>
            /\ UNCHANGED << spc, caller, currentScan >>
       ELSE SaveBegin("button", << >>)
    /\ UNCHANGED << continuous, rackNo, shelfNo, records, wrote, scans >>
    /\ UNCHANGED outsideScan

\* await Storage.save(this.currentScan) settles: the scan is written and
\* the toast 'Saved!' shown, then loadHistory is awaited; a rejection
\* leaves save, and the catch of handleFile shows it.
save_stored(ok) ==
    /\ spc = "storing"
    /\ IF ok
       THEN /\ records' = Append(records, currentScan)
            /\ wrote' = (caller = "handleFile" \/ wrote)
            /\ toasts' = Toast(toasts, ToastSaved)
            /\ spc' = "reloading"
            /\ UNCHANGED caller
       ELSE /\ toasts' = IF caller = "handleFile"
                         THEN Toast(toasts, ToastError)
                         ELSE toasts
            /\ spc' = "idle"
            /\ caller' = "none"
            /\ UNCHANGED << records, wrote >>
    /\ UNCHANGED << continuous, rackNo, shelfNo, currentScan, scans, clicks >>
    /\ UNCHANGED outsideScan

\* await this.loadHistory() settles: this.clear() empties the scan and the
\* inputs and save returns; a rejection leaves save before clear.
save_reloaded(ok) ==
    /\ spc = "reloading"
    /\ spc' = "idle"
    /\ caller' = "none"
    /\ IF ok
       THEN /\ currentScan' = NoScan
            /\ rackNo' = ""
            /\ shelfNo' = ""
            /\ toasts' = AfterSave(caller, toasts)
       ELSE /\ toasts' = IF caller = "handleFile"
                         THEN Toast(toasts, ToastError)
                         ELSE toasts
            /\ UNCHANGED << currentScan, rackNo, shelfNo >>
    /\ UNCHANGED << continuous, records, wrote, scans, clicks >>
    /\ UNCHANGED outsideScan

NextScan ==
    \/ \E rack \in RackValues, shelf \in ShelfValues :
          editLocation(rack, shelf)
    \/ toggleContinuous
    \/ handleFile
    \/ \E ok \in BOOLEAN : handleFile_processed(ok)
    \/ save
    \/ \E ok \in BOOLEAN : save_stored(ok)
    \/ \E ok \in BOOLEAN : save_reloaded(ok)

InitScan ==
    /\ CacheIdle
    /\ BatchIdle
    /\ ImageIdle
    /\ ScanIdle
    /\ navOnline = TRUE
    /\ DispatchIdle

SpecScan == InitScan /\ [][NextScan]_scanVars




\* ----------------------------------------------------------------- claims
Last(q) == q[Len(q)]

\* by-tags of errors raised by the remote request, by the local engine, by
\* enhanceImage.
RemoteErrorKinds == {"http", "api", "timeout", "network", "json"}
LocalErrorKinds == {"engineLoad", "recognition"}
EnhanceErrorKinds == {"decode", "encode"}

\* C1: a dispatch that read navigator.onLine as offline never calls the
\* remote endpoint (no fetch, no timer, no remote attempt), whatever the
\* connectivity does afterwards: it is on the local path from its first step.
C1_OfflineNeverRemote ==
    \A d \in Dispatches :
        sample[d] = "offline" =>
            /\ remoteCalls[d] = 0
            /\ remote[d] = "none"
            /\ timer[d] = "none"
            /\ route[d] = << "local" >>
            /\ pc[d] \in OfflinePcs \cup {"off_cbMode", "done"}

\* C1 witness: a dispatch started offline has returned the local text, and
\* the browser and OCR.isOnline are online again by then.
C1_Witness ==
    \E d \in Dispatches :
        /\ sample[d] = "offline"
        /\ pc[d] = "done"
        /\ outcome[d] = Returned("L", "local")
        /\ navOnline
        /\ isOnline

\* C2 (as claimed): a dispatch whose remote request failed (status, service
\* error, deadline) has started the local attempt exactly once when it ends,
\* and ends with the local attempt's text or error, not with the remote one.
C2_FallbackAlwaysRuns ==
    \A d \in Dispatches :
        /\ localStarts[d] <= 1
        /\ (remote[d] = "failed" /\ pc[d] = "done") =>
              /\ localStarts[d] = 1
              /\ outcome[d].by \in {"local"} \cup LocalErrorKinds
                                  \cup EnhanceErrorKinds

\* The statement of C2 for dispatches none of whose callbacks has thrown.
Fallback_WithQuietCallbacks ==
    \A d \in Dispatches :
        /\ localStarts[d] <= 1
        /\ (remote[d] = "failed" /\ pc[d] = "done" /\ ~cbThrew[d]) =>
              /\ localStarts[d] = 1
              /\ outcome[d].by \in {"local"} \cup LocalErrorKinds
                                  \cup EnhanceErrorKinds

\* C3 (as claimed): once the remote answer is a 2xx whose body has
\* IsErroredOnProcessing false, the dispatch is Done with the remote text and
\* has neither started the local attempt nor called the loader.
C3_RemoteSuccessIsFinal ==
    \A d \in Dispatches :
        remote[d] = "ok" =>
            /\ pc[d] = "done"
            /\ outcome[d].tag = "text"
            /\ outcome[d].by = "remote"
            /\ localStarts[d] = 0
            /\ loaderCalls[d] = 0

\* The statement of C3 for dispatches none of whose callbacks has thrown.
RemoteSuccess_WithQuietCallbacks ==
    \A d \in Dispatches :
        (remote[d] = "ok" /\ ~cbThrew[d]) =>
            /\ pc[d] = "done"
            /\ outcome[d].tag = "text"
            /\ outcome[d].by = "remote"
            /\ localStarts[d] = 0
            /\ loaderCalls[d] = 0

\* C4: the first attempt of a dispatch is the one its single read of
\* navigator.onLine selects, and the dispatch leaves the remote attempt for
\* the local one only through the catch of process: no later value of
\* navigator.onLine or OCR.isOnline moves a dispatch to the other route.
C4_RouteFixedBySample ==
    \A d \in Dispatches :
        /\ (sample[d] = "none") = (route[d] = << >>)
        /\ sample[d] = "online" => route[d][1] = "remote"
        /\ sample[d] = "offline" => route[d] = << "local" >>
        /\ pc[d] \in OnlinePcs \cup {"catch"} => route[d] = << "remote" >>
        /\ pc[d] \in OfflinePcs \cup {"off_cbMode"} => Last(route[d]) = "local"
        /\ Len(route[d]) = 2 => localStarts[d] = 1 /\ remote[d] # "pending"

\* C4 witness: a dispatch that sampled online is waiting for its remote
\* answer while the browser has gone offline and the offline event has
\* already set OCR.isOnline to false.
C4_Witness ==
    \E d \in Dispatches :
        /\ sample[d] = "online"
        /\ pc[d] = "on_fetch"
        /\ ~navOnline
        /\ ~isOnline
        /\ events = << >>

\* C5: the promise of process settles at most once, a dispatch is finished
\* exactly when it has settled, and what it settled with is either a text
\* (of the remote or the local path) or an error, never both or neither.
C5_OneTerminalOutcome ==
    \A d \in Dispatches :
        /\ settled[d] <= 1
        /\ (pc[d] = "done") = (settled[d] = 1)
        /\ (pc[d] = "done") = (outcome[d].tag \in {"text", "error"})
        /\ outcome[d].tag = "text" => outcome[d].by \in {"remote", "local"}
        /\ outcome[d].tag = "error" =>
              outcome[d].by \in RemoteErrorKinds \cup LocalErrorKinds
                                \cup EnhanceErrorKinds \cup {"callback"}
        /\ outcome[d].tag = "none" => outcome[d] = NoOutcome

\* C5 witness: of two dispatches one has ended with the remote text and the
\* other, after a fallback, with the local engine's error.
C5_Witness ==
    \E d, e \in Dispatches :
        /\ pc[d] = "done" /\ outcome[d].tag = "text" /\ outcome[d].by = "remote"
        /\ pc[e] = "done" /\ outcome[e].tag = "error"
        /\ outcome[e].by = "recognition" /\ Len(route[e]) = 2

\* Steps a dispatch may take from the two places where the local attempt can
\* fail, and from its end.
LocalFailureStep(d) ==
    /\ pc[d] = "off_loading" =>
          pc'[d] \in {"off_loading", "off_cbProcessing", "done"}
    /\ pc[d] = "off_recognize" => pc'[d] \in {"off_recognize", "done"}
    /\ pc[d] = "done" =>
          /\ pc'[d] = "done"
          /\ outcome'[d] = outcome[d]
          /\ remoteCalls'[d] = remoteCalls[d]
          /\ localStarts'[d] = localStarts[d]

\* C6: a failure of the local attempt (the engine script fails to load, or
\* recognize throws) ends the dispatch with that error: the step of the
\* failure is the dispatch's last, so no remote attempt and no second local
\* attempt follows, and the local attempt was started once.
C6_LocalFailureIsTerminal ==
    /\ [](\A d \in Dispatches :
            outcome[d].by \in LocalErrorKinds =>
                /\ pc[d] = "done"
                /\ outcome[d].tag = "error"
                /\ outcome[d].val \in {"Failed to load Tesseract.js",
                                       "Offline OCR failed: recognize failed"}
                /\ localStarts[d] = 1)
    /\ [][\A d \in Dispatches : LocalFailureStep(d)]_vars

\* C6 witness: a dispatch that started online fell back and ended with the
\* error of recognize, having made one remote request and one local attempt.
C6_Witness ==
    \E d \in Dispatches :
        /\ pc[d] = "done"
        /\ outcome[d].by = "recognition"
        /\ sample[d] = "online"
        /\ remoteCalls[d] = 1
        /\ localStarts[d] = 1

\* C7 (as claimed): at most one load of the engine script is pending at any
\* time, however many dispatches reach the loader before it is defined.
C7_SingleInitialization == pendingLoads <= 1

\* C8 (as claimed): a throw of the progress callback never decides how the
\* dispatch ends: no dispatch ends with the callback's exception.
C8_CallbackNeverAborts ==
    \A d \in Dispatches : outcome[d].by # "callback"

\* C9 (as claimed): a failure of enhanceImage ends the dispatch at once with
\* that error, with no remote request, no local attempt and no loader call.
C9_EnhancementFailureAborts ==
    \A d \in Dispatches :
        /\ caught[d].by \notin EnhanceErrorKinds
        /\ outcome[d].by \in EnhanceErrorKinds =>
              /\ remoteCalls[d] = 0
              /\ localStarts[d] = 0
              /\ loaderCalls[d] = 0

C11_DeadlineCoversBody ==
    \A d \in Dispatches :
        pc[d] \in {"on_fetch", "on_json"} => timer[d] = "armed"

\* What the caller of process receives: a string, or a thrown Error with its
\* message.
Visible(d) == [tag |-> outcome[d].tag, val |-> outcome[d].val]

\* C12 (as claimed): a successful outcome tells its route: two dispatches
\* that hand the caller the same successful value took the same route.
C12_OutcomeCarriesSource ==
    \A d, e \in Dispatches :
        (outcome[d].tag = "text" /\ Visible(d) = Visible(e)) =>
            outcome[d].by = outcome[e].by

\* C13 (as claimed): the error of a failed remote attempt identifies its
\* kind: two caught errors of the three kinds (status, service, deadline)
\* that look the same to the catch are of the same kind.
C13_RemoteErrorsDistinguishable ==
    \A d, e \in Dispatches :
        ( /\ caught[d].by \in {"http", "api", "timeout"}
          /\ caught[e].by \in {"http", "api", "timeout"}
          /\ caught[d].msg = caught[e].msg ) =>
            caught[d].by = caught[e].by

\* Steps of a dispatch through the loader.
LoaderStep(d) ==
    /\ ( /\ pc[d] = "off_cbLoading"
         /\ pc'[d] # "off_cbLoading"
         /\ ~tesseract
         /\ outcome'[d].by # "callback" ) =>
            /\ pc'[d] = "off_loading"
            /\ loaderCalls'[d] = loaderCalls[d] + 1
            /\ pendingLoads' = pendingLoads + 1
    /\ (pc[d] = "off_loading" /\ pc'[d] = "off_cbProcessing") => tesseract'

\* C14: a failed load of the engine script leaves nothing behind: whatever
\* loads have failed before, a loadTesseract call made while Tesseract is
\* undefined appends a new script and waits for it, the dispatch goes on
\* when that script loads, and a dispatch fails with the load error only for
\* a script of its own.
C14_LoadFailureNotSticky ==
    /\ [](\A d \in Dispatches :
            /\ outcome[d].by = "engineLoad" => loaderCalls[d] = 1
            /\ pc[d] = "off_loading" =>
                  loaderCalls[d] = 1 /\ pendingLoads >= 1)
    /\ [][\A d \in Dispatches : LoaderStep(d)]_vars

\* C14 witness: one dispatch has failed with the load error, Tesseract is
\* still undefined, and another dispatch is waiting for a script of its own.
C14_Witness ==
    \E d, e \in Dispatches :
        /\ outcome[d].by = "engineLoad"
        /\ ~tesseract
        /\ pc[e] = "off_loading"
        /\ loaderCalls[e] = 1
        /\ pendingLoads = 1

\* C15 (as claimed): a 2xx answer without IsErroredOnProcessing and without
\* ParsedResults[0] ends the dispatch Done with the empty string, and the
\* local attempt is not started.
C15_NoResultIsEmptyText ==
    \A d \in Dispatches :
        (body[d].read /\ body[d].ParsedResults = << >>) =>
            /\ pc[d] = "done"
            /\ outcome[d] = Returned("", "remote")
            /\ localStarts[d] = 0

\* The statement of C15 for dispatches none of whose callbacks has thrown.
NoResult_WithQuietCallbacks ==
    \A d \in Dispatches :
        (body[d].read /\ body[d].ParsedResults = << >> /\ ~cbThrew[d]) =>
            /\ pc[d] = "done"
            /\ outcome[d] = Returned("", "remote")
            /\ localStarts[d] = 0

\* ------------------------------------------------ claims, service worker
\* What cache storage held when the current install began.
HeldAtInstall(u) == \E n \in atInstall.names : u \in atInstall.entries[n]

\* A lookup of fetch event f settles in this step.
Looked(f) == fetches[f].pc = "match" /\ fetches'[f].pc # "match"

\* The activate handler finishes in this step.
ActivationCompletes == swPc = "deleting" /\ swPc' = "activated"

\* C16: when a required file fails to be fetched, the install fails: the
\* worker is discarded and never gets an activate event, the controller is
\* the one before the install, every cache that existed when the install
\* began is still there with all of its entries, and a GET for any of them
\* is answered from the cache.
C16_FailedInstallKeepsPrevious ==
    /\ [](requiredFailed # {} =>
            /\ swPc = "redundant"
            /\ activations = 0
            /\ keysToDelete = {}
            /\ controller = atInstall.controller
            /\ atInstall.names \subseteq cacheNames
            /\ \A n \in atInstall.names :
                  atInstall.entries[n] \subseteq entries[n])
    /\ [][\A f \in FetchIds :
            ( /\ requiredFailed # {}
              /\ Looked(f)
              /\ HeldAtInstall(fetches[f].url) ) =>
                fetches'[f].answer = Answer("cache", 200)]_swVars

\* C16 witness: the install has failed while a previous worker controls the
\* pages; one of its fetch events has been answered from the previous cache
\* and another is at its lookup.
C16_Witness ==
    /\ requiredFailed # {}
    /\ swPc = "redundant"
    /\ atInstall.controller = "previous"
    /\ \E f, g \in FetchIds :
        /\ fetches[f].worker = "previous"
        /\ fetches[f].url \in atInstall.entries[PREVIOUS_NAME]
        /\ fetches[f].answer = Answer("cache", 200)
        /\ fetches[g].pc = "match"
        /\ fetches[g].url \in atInstall.entries[PREVIOUS_NAME]

\* C17 (as claimed): after an install that failed on a required file, cache
\* storage has no cache called CACHE_NAME, not even an empty one.
C17_FailedInstallLeavesNoCache ==
    requiredFailed # {} => CACHE_NAME \notin cacheNames

\* C18: whichever optional files fail, the install does not fail: from the
\* optional adds on the worker is never discarded, it is installed with its
\* skip-waiting flag set, and from then on the cache CACHE_NAME holds every
\* required file and every optional file whose fetch succeeded; once the
\* worker is activated a GET for a required file is answered from the cache.
C18_OptionalFailuresTolerated ==
    /\ [](/\ swPc \in {"adding", "installed", "keys", "deleting",
                       "activated"} =>
               /\ CACHE_NAME \in cacheNames
               /\ CACHE_URLS \subseteq entries[CACHE_NAME]
               /\ addedOk \subseteq entries[CACHE_NAME]
          /\ swPc = "installed" => skipWaitingFlag)
    /\ [][/\ swPc = "adding" => swPc' \in {"adding", "installed"}
          /\ swPc = "installed" => swPc' \in {"installed", "keys"}
          /\ swPc \in {"keys", "deleting", "activated"} =>
                swPc' \in {"keys", "deleting", "activated"}
          /\ \A f \in FetchIds :
                ( /\ swPc = "activated"
                  /\ Looked(f)
                  /\ fetches[f].url \in CACHE_URLS ) =>
                    fetches'[f].answer = Answer("cache", 200)]_swVars

\* C18 witness: the worker is activated after an install in which one
\* optional file failed and the other was stored, and it has answered a GET
\* for a required file from the cache.
C18_Witness ==
    /\ swPc = "activated"
    /\ addedOk # {}
    /\ addedOk # TESSERACT_URLS
    /\ addedOk \subseteq entries[CACHE_NAME]
    /\ \E f \in FetchIds :
        /\ fetches[f].worker = "current"
        /\ fetches[f].url \in CACHE_URLS
        /\ fetches[f].answer = Answer("cache", 200)

\* C19 (as claimed): when the activate handler finishes, CACHE_NAME is the
\* only cache in cache storage.
C19_ActivationLeavesOnlyCurrent ==
    [][ActivationCompletes => cacheNames' = {CACHE_NAME}]_swVars

\* The statement of C19 when no fetch event of the previous worker has got
\* an ok answer from the network (so none has a store to run): the current
\* cache is the only one, and it has kept its required files.
ActivationLeavesOnlyCurrent_WithoutLateStores ==
    [][( /\ ActivationCompletes
         /\ \A f \in FetchIds :
               ~ ( /\ fetches[f].worker = "previous"
                   /\ fetches[f].answer.from = "network"
                   /\ ResponseOk(fetches[f].answer.status) ) ) =>
            /\ cacheNames' = {CACHE_NAME}
            /\ CACHE_URLS \subseteq entries'[CACHE_NAME]]_swVars

\* C20 (as claimed): once the worker is activated, no cache other than
\* CACHE_NAME exists in cache storage.
C20_NoOtherGenerationAfterActivation ==
    swPc = "activated" => cacheNames = {CACHE_NAME}

\* C21: a request that is not a GET is left to the browser: the handler
\* never looks it up and never answers it, from the cache or otherwise, and
\* taking the event changes neither the caches nor their entries, whatever
\* its URL (stored or not).
C21_NonGetBypassesCache ==
    /\ [](\A f \in FetchIds :
            (fetches[f] # NoFetch /\ fetches[f].method # "GET") =>
                /\ fetches[f].pc = "done"
                /\ fetches[f].answer = Answer("browser", 0))
    /\ [][\A f \in FetchIds :
            (fetches'[f] # fetches[f] /\ fetches'[f].method # "GET") =>
                /\ cacheNames' = cacheNames
                /\ entries' = entries]_swVars

\* C21 witness: a POST for a stored URL and a POST for a URL that is not
\* stored have both gone through the handler.
C21_Witness ==
    \E f, g \in FetchIds :
        /\ fetches[f].method = "POST" /\ Hit(fetches[f].url)
        /\ fetches[g].method = "POST" /\ ~Hit(fetches[g].url)
        /\ fetches[f].answer.from = "browser"
        /\ fetches[g].answer.from = "browser"

\* C22: when the lookup of a GET finds a stored entry, the event is answered
\* with it at once and is finished: it never waits for the network.
C22_HitAnswersFromCache ==
    /\ [](\A f \in FetchIds :
            fetches[f].answer.from = "cache" =>
                fetches[f].pc = "done" /\ fetches[f].method = "GET")
    /\ [][\A f \in FetchIds :
            (Looked(f) /\ Hit(fetches[f].url)) =>
                /\ fetches'[f].pc = "done"
                /\ fetches'[f].answer = Answer("cache", 200)]_swVars

\* C22 witness: a GET has been answered from the cache while another GET,
\* for a URL that is not stored, waits for the network.
C22_Witness ==
    \E f, g \in FetchIds :
        /\ fetches[f].method = "GET"
        /\ fetches[f].answer = Answer("cache", 200)
        /\ fetches[g].pc = "network"

\* C23 (as claimed): a GET is answered from the cache only with an entry of
\* the cache of the worker that handles it.
C23_LookupOnlyCurrentGeneration ==
    [][\A f \in FetchIds :
        (Looked(f) /\ fetches'[f].answer.from = "cache") =>
            fetches[f].url \in entries[CacheNameOf(fetches[f].worker)]]_swVars

\* A store of fetch event f settles in this step.
Put(f) == fetches[f].pc = "put" /\ fetches'[f].pc = "done"

\* An answer of the network with an ok status.
OkFromNetwork(a) == a.from = "network" /\ ResponseOk(a.status)

C25_AlwaysAResponse ==
    /\ [](\A f \in FetchIds :
            (fetches[f].method = "GET" /\ fetches[f].pc \in
                 {"open", "put", "done"}) =>
                /\ fetches[f].answer.from \in {"cache", "network",
                                               "synthetic"}
                /\ fetches[f].answer.from = "synthetic" =>
                      fetches[f].answer.status = 503)
    /\ [][\A f \in FetchIds :
            ( /\ fetches[f].pc = "network"
              /\ fetches'[f].pc # "network"
              /\ fetches'[f].answer.from # "network" ) =>
                fetches'[f].answer = Answer("synthetic", 503)]_swVars

\* C25 witness: a GET for a URL that is not stored has been answered with
\* the synthetic 503.
C25_Witness ==
    \E f \in FetchIds :
        /\ fetches[f].method = "GET"
        /\ ~Hit(fetches[f].url)
        /\ fetches[f].pc = "done"
        /\ fetches[f].answer = Answer("synthetic", 503)

\* C26: the two branches of the handler are the same policy: whatever the
\* caches hold, each callback of the same-origin branch and its counterpart
\* of the other branch turn any event into the same event (same answer,
\* same next step) for every network status, and their stores open the same
\* cache.
C26_SamePolicyForBothOrigins ==
    \A f \in FetchIds :
        /\ OnMatch_sameOrigin(fetches[f]) = OnMatch_crossOrigin(fetches[f])
        /\ \A status \in Statuses :
              OnNetwork_sameOrigin(fetches[f], status) =
                  OnNetwork_crossOrigin(fetches[f], status)
        /\ OnNetworkError_sameOrigin(fetches[f]) =
              OnNetworkError_crossOrigin(fetches[f])
        /\ StoreName_sameOrigin(fetches[f]) =
              StoreName_crossOrigin(fetches[f])

\* C26 witness: a same-origin GET and a GET to another origin have both
\* missed, got a 200 from the network and been stored in the cache of the
\* worker that handled them.
C26_Witness ==
    \E f, g \in FetchIds :
        /\ SameOrigin(fetches[f].url) /\ fetches[f].pc = "done"
        /\ fetches[g].pc = "done" /\ ~SameOrigin(fetches[g].url)
        /\ fetches[f].answer = Answer("network", 200)
        /\ fetches[g].answer = Answer("network", 200)
        /\ fetches[f].url \in entries[CacheNameOf(fetches[f].worker)]
        /\ fetches[g].url \in entries[CacheNameOf(fetches[g].worker)]

\* A message event is handled in this step.
Received == Len(inbox') > Len(inbox)

\* C27: handling a 'skipWaiting' message sets the worker's skip-waiting flag
\* and nothing else, so the worker, once installed, can be activated while
\* the previous worker still controls the open pages; handling a message
\* with any other data changes nothing of the worker, the controller or the
\* caches.
C27_ActivateNowMessage ==
    /\ [](/\ (\E i \in 1..Len(inbox) : inbox[i] = "skipWaiting") =>
                skipWaitingFlag
          /\ (swPc = "installed" /\ skipWaitingFlag) => ENABLED sw_activate)
    /\ [][Received =>
            /\ skipWaitingFlag' =
                  (skipWaitingFlag \/ Last(inbox') = "skipWaiting")
            /\ UNCHANGED << cacheNames, entries, swPc, pendingAdds,
                            keysToDelete, controller, fetches, installs,
                            activations, requiredFailed, addedOk,
                            atInstall >>]_swVars

\* C27 witness: while the previous worker controls the pages, the worker has
\* been installed with its flag set by a 'skipWaiting' message that it got
\* before its install handler called skipWaiting itself.
C27_Witness ==
    /\ controller = "previous"
    /\ inbox = << "skipWaiting" >>
    /\ skipWaitingFlag
    /\ swPc \in {"install", "addAll", "reopen", "adding"}

\* ---------------------------------------------------------- claims, batch
\* C28: the cancel flag only acts between files: setting it moves no batch
\* and ends no file; a file that has been begun is the one its batch is
\* working on until it ends saved or failed, so no begun file is ever
\* dropped; and a batch that has seen the flag at the top of its loop is
\* out of the loop and begins no further file.
C28_CancelBetweenItems ==
    /\ [](\A b \in Batches :
            /\ \A i \in 1..MaxFiles :
                  items[b][i] = "started" =>
                      i = processed[b] /\ bpc[b] \in {"read", "ocr", "store"}
            /\ sawCancel[b] => bpc[b] \in {"history", "done"})
    /\ [][/\ batchCancelled' # batchCancelled =>
               \/ bpc' = bpc /\ items' = items /\ processed' = processed
               \/ ~batchCancelled'
          /\ \A b \in Batches :
               sawCancel[b] =>
                  processed'[b] = processed[b] /\ items'[b] = items[b]
          /\ \A b \in Batches : \A i \in 1..MaxFiles :
               items[b][i] \in {"saved", "failed"} =>
                  items'[b][i] = items[b][i]]_batchVars

\* C28 witness: cancellation was asked while the first of two files was
\* being processed; that file has been saved, the batch has then seen the
\* flag, and the second file has not been begun.
C28_Witness ==
    \E b \in Batches :
        /\ files[b] = 2
        /\ cancelAsked[b]
        /\ sawCancel[b]
        /\ items[b][1] = "saved"
        /\ items[b][2] = "none"
        /\ processed[b] = 1

\* ------------------------------------------------------ claims, dispatch
\* C29 (as claimed): OCR.isOnline changes only in a step of the online or
\* offline listener (a step that takes an event off the queue); no step of
\* a dispatch assigns it.
C29_SignalWrittenOnlyByListeners ==
    [][isOnline' # isOnline => Len(events') < Len(events)]_vars

\* --------------------------------------------------- claims, enhancement
\* C30: the canvas of an image wider than maxWidth is exactly maxWidth wide
\* and its height is height * maxWidth / width with the fraction dropped
\* (less than one pixel below the exact value, never above it); an image at
\* most maxWidth wide keeps its size; 3000 x 2000 gives 1400 x 933.
C30_ScaledToMaxWidth ==
    canvas.created =>
        /\ IF img.width > maxWidth
           THEN /\ canvas.width = maxWidth
                /\ canvas.height * img.width <= img.height * maxWidth
                /\ img.height * maxWidth < (canvas.height + 1) * img.width
           ELSE /\ canvas.width = img.width
                /\ canvas.height = img.height
        /\ canvas.width <= 1400
        /\ (img.width = 3000 /\ img.height = 2000) =>
              (canvas.width = 1400 /\ canvas.height = 933)

\* C30 witness: the canvas of a 3000 x 2000 image has been created, 1400 x
\* 933.
C30_Witness ==
    /\ canvas.created
    /\ img.width = 3000 /\ img.height = 2000
    /\ canvas.width = 1400 /\ canvas.height = 933

\* C31: for every channel value 0..255 and either brightness offset, the
\* value of min(255, max(0, (v - 128) * 1.3 + 128 + offset)) lies between 0
\* and 255, and so does every channel applyEnhancements has written.
C31_ChannelsStayInRange ==
    /\ \A v \in 0..255, factor \in {0, darkOffset} :
          /\ EnhancedChannel(v, factor) >= 0
          /\ EnhancedChannel(v, factor) <= 2550
    /\ canvas.created =>
          \A i \in 1..Len(pixels) : \A c \in Channels :
              /\ EnhancedChannel(pixels[i][c], brightnessFactor(pixels)) >= 0
              /\ EnhancedChannel(pixels[i][c], brightnessFactor(pixels)) <= 2550
              /\ imageData[i][c] \in 0..255

\* C31 witness: a dark image has been enhanced whose white pixel was held
\* at 255 from above and whose black pixel was held at 0 from below.
C31_Witness ==
    /\ canvas.created
    /\ pixels = << << 255, 255, 255 >>, << 0, 0, 0 >> >>
    /\ brightnessFactor(pixels) = darkOffset
    /\ imageData[1] = << 255, 255, 255 >>
    /\ imageData[2] = << 0, 0, 0 >>

\* C32 (as claimed): after an all-black image is enhanced, every colour
\* channel of the result is greater than 0.
C32_BlackIsBrightened ==
    (canvas.created /\ \A i \in 1..Len(pixels) : pixels[i] = << 0, 0, 0 >>) =>
        \A i \in 1..Len(imageData) : \A c \in Channels : imageData[i][c] > 0

\* What the code does with an all-black image: the dark offset applies and
\* every channel is still 0, because (0 - 128) * 1.3 + 128 + 20 is below 0.
BlackStaysBlack ==
    (canvas.created /\ \A i \in 1..Len(pixels) : pixels[i] = << 0, 0, 0 >>) =>
        /\ brightnessFactor(pixels) = darkOffset
        /\ \A i \in 1..Len(imageData) : imageData[i] = << 0, 0, 0 >>

\* ------------------------------------------------------ claims, dispatch
\* C33 (as claimed): a dispatch that has ended, with a text or an error,
\* holds no object URL: every URL it created has been revoked.
C33_ObjectUrlsRevoked ==
    \A d \in Dispatches : pc[d] = "done" => objectUrls[d] = {}

\* What the code guarantees: the URL of the file being decoded is always
\* revoked, and the only URL a finished dispatch still holds is the one of
\* the enhanced image, after a failed recognition.
ObjectUrlsRevoked_UnlessRecognitionFails ==
    \A d \in Dispatches :
        pc[d] = "done" =>
            \/ objectUrls[d] = {}
            \/ /\ objectUrls[d] = {"image"}
               /\ outcome[d].tag = "error"
               /\ outcome[d].by = "recognition"

\* C34: the abort timer of a dispatch is pending only while its fetch is
\* pending: once the remote attempt has ended, with a text or with any
\* error, the timer has been cleared or has fired (the abort itself), so it
\* cannot fire later and does not outlive the dispatch.
C34_TimerEndsWithAttempt ==
    \A d \in Dispatches :
        /\ timer[d] = "armed" => pc[d] = "on_fetch"
        /\ remote[d] \in {"ok", "failed"} => timer[d] \in {"cleared", "fired"}
        /\ pc[d] = "done" => timer[d] # "armed"
        /\ timer[d] = "fired" => remote[d] = "failed"

\* C34 witness: one dispatch has ended with the remote text and its timer
\* cleared, another has ended after its timer fired.
C34_Witness ==
    \E d, e \in Dispatches :
        /\ pc[d] = "done" /\ pc[e] = "done"
        /\ remote[d] = "ok" /\ timer[d] = "cleared"
        /\ outcome[d].by = "remote"
        /\ timer[e] = "fired"

\* ------------------------------------------------ claims, service worker
\* C35: the steps of the install and activate handlers run in order. The
\* optional files are requested only once every required file is stored;
\* the install ends with its skipWaiting call only once every optional
\* request has settled; every cache other than the current one that
\* caches.keys() listed is deleted, and clients.claim() runs only once each
\* of these deletions has settled.
C35_HandlerStepsInOrder ==
    [][ /\ pendingAdds' # {} /\ pendingAdds = {} =>
              /\ swPc = "reopen"
              /\ requiredFailed = {}
              /\ CACHE_URLS \subseteq entries[CACHE_NAME]
        /\ swPc' = "installed" /\ swPc # "installed" =>
              /\ swPc = "adding"
              /\ pendingAdds = {}
              /\ skipWaitingFlag'
        /\ swPc = "keys" /\ swPc' # "keys" =>
              keysToDelete' = cacheNames \ {CACHE_NAME}
        /\ \A k \in keysToDelete \ keysToDelete' : k \notin cacheNames'
        /\ swPc' = "activated" /\ swPc # "activated" =>
              /\ swPc = "deleting"
              /\ keysToDelete = {}
              /\ controller' = "current"
      ]_swVars

\* C35 witness: the worker is activated and controls the pages after an
\* install in which an optional file failed and an activation that deleted
\* the previous generation.
C35_Witness ==
    /\ swPc = "activated"
    /\ controller = "current"
    /\ PREVIOUS_NAME \in atInstall.names
    /\ PREVIOUS_NAME \notin cacheNames
    /\ addedOk # TESSERACT_URLS
    /\ CACHE_URLS \subseteq entries[CACHE_NAME]

\* C36 (as claimed): a GET that missed the cache and got an ok answer from
\* the network is answered at once, while its store is still to run, and
\* the answer is eventually held by the storage under the request's URL, so
\* that a lookup for it hits.
C36_OkAnswerEventuallyStored ==
    \A f \in FetchIds :
        (fetches[f].pc = "open" /\ OkFromNetwork(fetches[f].answer))
            ~> Hit(fetches[f].url)

\* The same for the events of the activated worker, whose cache nothing
\* deletes: the answer is eventually in CACHE_NAME and stays there.
OkAnswerEventuallyStored_ByActivatedWorker ==
    /\ \A f \in FetchIds :
          ( /\ fetches[f].pc = "open"
            /\ fetches[f].worker = "current"
            /\ OkFromNetwork(fetches[f].answer) )
              ~> [](fetches[f].url \in entries[CACHE_NAME])
    /\ [][\A f \in FetchIds :
            (fetches[f].pc = "network" /\ fetches'[f].pc = "open") =>
                fetches'[f].answer.from = "network"]_swVars

\* ---------------------------------------------------------- claims, batch
\* C37 (as claimed): once cancellation has been requested while a call of
\* handleBatchFiles is running, that call begins no further file.
C37_NoItemAfterCancel ==
    [][\A b \in Batches :
          cancelAsked[b] => processed'[b] = processed[b]]_batchVars

\* What the code guarantees: a call begins no further file while the flag
\* is set.
NoItemWhileFlagSet ==
    [][\A b \in Batches :
          (Running(b) /\ batchCancelled) =>
              processed'[b] = processed[b]]_batchVars

\* C38: the counters of a call satisfy saved <= processed <= number of
\* files, saved counts the files stored, and the loop is left only when
\* every file has been begun or when the flag was seen set after a
\* cancellation was requested: a file that fails is followed by the next.
C38_FailureDoesNotStopBatch ==
    \A b \in Batches :
        /\ saved[b] <= processed[b]
        /\ processed[b] <= files[b]
        /\ bpc[b] \in {"history", "done"} =>
              /\ saved[b] = Cardinality({i \in 1..files[b] :
                                           items[b][i] = "saved"})
              /\ \/ processed[b] = files[b]
                 \/ sawCancel[b] /\ cancelAsked[b]
        /\ \A i \in 1..files[b] :
              items[b][i] = "failed" =>
                  \/ i = processed[b]
                  \/ items[b][i + 1] # "none"
                  \/ sawCancel[b]

\* C38 witness: a call with two files has returned with no cancellation
\* requested; its first file failed and its second was stored.
C38_Witness ==
    \E b \in Batches :
        /\ bpc[b] = "done"
        /\ files[b] = 2
        /\ ~cancelAsked[b]
        /\ items[b][1] = "failed"
        /\ items[b][2] = "saved"
        /\ processed[b] = 2
        /\ saved[b] = 1

\* C39 (as claimed): a call of handleBatchFiles with at least one file has
\* shown exactly one summary, the cancelled one or the completed one, when
\* it returns.
C39_ExactlyOneSummary ==
    \A b \in Batches :
        (bpc[b] = "done" /\ files[b] > 0) =>
            summary[b].cancelled + summary[b].complete = 1

\* The run the claim names: cancellation was requested once the last file
\* of a call had been begun, and the call has returned without any summary.
CancelDuringLastItem ==
    \E b \in Batches :
        /\ bpc[b] = "done"
        /\ files[b] > 0
        /\ cancelAsked[b]
        /\ processed[b] = files[b]
        /\ batchCancelled
        /\ summary[b] = NoSummary

\* A call that has shown both summaries.
BothSummaries ==
    \E b \in Batches :
        summary[b].cancelled > 0 /\ summary[b].complete > 0

\* ---------------------------------------------------- claims, single scan
\* Whether a toast has been shown since the last file was chosen.
Shown(msg) == \E i \in 1..Len(toasts) : toasts[i] = msg

\* C40 (as claimed): 'Saved! Ready for next' is shown after a scan only if
\* that scan has been written to the storage, and no record is written
\* without a rack and a shelf.
C40_ReadyOnlyIfStored ==
    /\ Shown(ToastReady) => wrote
    /\ \A i \in 1..Len(records) :
          records[i].rackNo # "" /\ records[i].shelfNo # ""

\* What the code guarantees: nothing is stored without a rack and a shelf,
\* and 'Saved! Ready for next' follows either 'Saved!' or the refusal 'Rack
\* and Shelf are mandatory'; without the refusal the scan has been written.
ReadyFollowsSavedOrRefusal ==
    /\ \A i \in 1..Len(records) :
          records[i].rackNo # "" /\ records[i].shelfNo # ""
    /\ Shown(ToastReady) => (Shown(ToastSaved) \/ Shown(ToastMandatory))
    /\ (Shown(ToastReady) /\ ~Shown(ToastMandatory)) => wrote

=============================================================================
